---- MODULE Spec2Model ----
(***************************************************************************)
(* A model of weiqi_py: the Board (grid, Zobrist fingerprint, repetition   *)
(* set, capture counters), its GroupManager (stone -> group map, stone     *)
(* sets, liberty sets) and the MoveStack (undo / redo history).            *)
(*                                                                         *)
(* The Zobrist table holds 64-bit pseudo-random values.  They are modelled *)
(* as the generators of a GF(2) vector space: a hash value is the set of   *)
(* table entries that occur an odd number of times in it, and XOR is the   *)
(* symmetric difference.  This is exact as long as the table entries are   *)
(* linearly independent, which the model assumes.                          *)
(***************************************************************************)
EXTENDS Integers, Sequences, FiniteSets, TLC

VARIABLES board,             \* Board.board: padded grid, (y, x) -> cell state
          black_captures,    \* Board.black_captures
          white_captures,    \* Board.white_captures
          position_history,  \* Board.position_history: set of fingerprints
          current_hash,      \* Board.current_hash
          groups,            \* GroupManager.groups: (y, x) -> group id
          group_stones,      \* GroupManager.group_stones: id -> set of (y, x)
          group_liberties,   \* GroupManager.group_liberties: id -> set of (y, x)
          next_group_id,     \* GroupManager.next_group_id
          moves,             \* MoveStack.moves: sequence of Move records
          current_index,     \* MoveStack.current_index
          history_alias,     \* index (1-based) of the record whose stored
                             \* previous_position_history is the very set object
                             \* Board.position_history refers to; 0 if none
          seen_grids,        \* history: every grid since construction / reset
          last,              \* the last call: what was called and how it ended
          driver,            \* which calls, with which arguments, the caller makes
          pushed,            \* how many moves MoveStack.push has stored so far
          walk,              \* the loop the caller is in: "to_root", "to_end",
                             \* or "idle"
          current_player,    \* Game.current_player
          passes,            \* Game.passes
          moves_history,     \* Game.moves_history
          is_game_over,      \* Game.is_game_over
          winner,            \* Game.winner
          turn_history,      \* history: for every entry of moves_history, the
                             \* current_player at the time of the call that
                             \* appended it
          twin,              \* the Game that Game.copy has returned, if any
          conv               \* a coordinate on its way to SGF text and back

vars == <<board, black_captures, white_captures, position_history, current_hash,
          groups, group_stones, group_liberties, next_group_id,
          moves, current_index, history_alias, seen_grids, last, driver, pushed,
          walk, current_player, passes, moves_history, is_game_over, winner,
          turn_history, twin, conv>>

boardVars == <<board, black_captures, white_captures, position_history,
               current_hash, groups, group_stones, group_liberties, next_group_id>>

stackVars == <<moves, current_index, history_alias>>

gameVars ==
    <<current_player, passes, moves_history, is_game_over, winner, turn_history>>

\* What belongs to the caller, and to none of the objects above.
callerVars == <<driver, twin, conv>>

----------------------------------------------------------------------------
(* Constants of board.py *)

EMPTY == 0

BLACK == 1

WHITE == 2

OFFBOARD == 3

DIRECTIONS == << <<-1, 0>>, <<0, 1>>, <<1, 0>>, <<0, -1>> >>

\* The board size the model is built for: the smallest one Board accepts.
Size == 5

\* get_group_id returns None for a point without a group.
None == -1

----------------------------------------------------------------------------
(* Bounds of the model *)

\* How many groups the caller that places stones beside a MoveStack lets the
\* tracker number before it stops placing.
MaxGroups == 4

\* How many moves MoveStack.push is driven to store in one run.
MaxPushes == 3

----------------------------------------------------------------------------
(* Helpers *)

Cells == (0 .. Size + 1) \X (0 .. Size + 1)

InBounds(y, x) == 1 <= y /\ y <= Size /\ 1 <= x /\ x <= Size

Interior == {p \in Cells : InBounds(p[1], p[2])}

\* The in-bounds points next to (y, x): the loop over DIRECTIONS with its
\* "1 <= ny <= size and 1 <= nx <= size" test.
Adjacent(y, x) ==
    {q \in {<<y + DIRECTIONS[i][1], x + DIRECTIONS[i][2]>> : i \in 1 .. 4} :
        InBounds(q[1], q[2])}

Opponent(color) == IF color = BLACK THEN WHITE ELSE BLACK

\* A read of a defaultdict(set): a missing key reads as the empty set ...
Get(table, id) == IF id \in DOMAIN table THEN table[id] ELSE {}

\* ... and is inserted by the read.
Touch(table, ids) ==
    [id \in DOMAIN table \cup ids |-> IF id \in DOMAIN table THEN table[id] ELSE {}]

\* del d[k] for every k of keys.
Without(f, keys) == [k \in DOMAIN f \ keys |-> f[k]]

\* d[k] = v for every k of keys.
With(f, keys, v) == [k \in DOMAIN f \cup keys |-> IF k \in keys THEN v ELSE f[k]]

EmptyGrid ==
    [p \in Cells |-> IF InBounds(p[1], p[2]) THEN EMPTY ELSE OFFBOARD]

\* The empty in-bounds points next to (y, x) on grid b.
EmptyAdjacent(b, y, x) == {q \in Adjacent(y, x) : b[q] = EMPTY}

----------------------------------------------------------------------------
(* Zobrist fingerprint *)

\* zobrist_table[y, x, k]
ZobristTable(y, x, k) == {<<y, x, k>>}

\* a ^ b
Xor(a, b) == (a \ b) \cup (b \ a)

\* The interior points in the order of the two nested range loops.
PointAt(i) == <<((i - 1) \div Size) + 1, ((i - 1) % Size) + 1>>

RECURSIVE HashFrom(_, _)
HashFrom(b, i) ==
    IF i > Size * Size THEN {}
    ELSE LET p == PointAt(i)
             rest == HashFrom(b, i + 1)
         IN IF b[p] > 0
              THEN Xor(ZobristTable(p[1], p[2], b[p] - 1), rest)
              ELSE rest

\* The value _update_position_hash computes for grid b.
HashPosition(b) == HashFrom(b, 1)

RECURSIVE XorAll(_, _, _)
\* h ^= zobrist_table[gy, gx, k] for every (gy, gx) of stones.
XorAll(h, stones, k) ==
    IF stones = {} THEN h
    ELSE LET s == CHOOSE s \in stones : TRUE
         IN XorAll(Xor(h, ZobristTable(s[1], s[2], k)), stones \ {s}, k)

----------------------------------------------------------------------------
(* GroupManager.  gm is any record with the fields groups, group_stones,  *)
(* group_liberties and next_group_id; b is the grid the method is given.  *)

\* get_group_id
GetGroupId(gm, p) == IF p \in DOMAIN gm.groups THEN gm.groups[p] ELSE None

\* The ids get_group_id finds on the points of a set.
GroupIdsOn(gm, points) == {GetGroupId(gm, q) : q \in points} \ {None}

Min(S) == CHOOSE m \in S : \A n \in S : m <= n

\* create_group
CreateGroup(gm, y, x, color, b) ==
    LET group_id == gm.next_group_id
    IN [gm EXCEPT
          !.next_group_id = group_id + 1,
          !.groups = With(gm.groups, {<<y, x>>}, group_id),
          !.group_stones =
              With(gm.group_stones, {group_id},
                   Get(gm.group_stones, group_id) \cup {<<y, x>>}),
          !.group_liberties =
              With(gm.group_liberties, {group_id}, EmptyAdjacent(b, y, x))]

\* A merge that keeps the largest id.
MergedIdLargest(group_ids) == CHOOSE m \in group_ids : \A n \in group_ids : n <= m

\* The id merge_groups keeps.
MergedId(group_ids) == Min(group_ids)

\* merge_groups (group_ids is not empty)
MergeGroups(gm, group_ids, new_stone, b) ==
    LET new_group_id == MergedId(group_ids)
        dropped == group_ids \ {new_group_id}
        all_stones ==
            UNION {Get(gm.group_stones, id) : id \in group_ids} \cup {new_stone}
        all_liberties ==
            (UNION {Get(gm.group_liberties, id) : id \in group_ids} \ {new_stone})
                \cup EmptyAdjacent(b, new_stone[1], new_stone[2])
    IN [gm EXCEPT
          !.group_stones =
              With(Without(gm.group_stones, dropped), {new_group_id}, all_stones),
          !.group_liberties =
              With(Without(gm.group_liberties, dropped), {new_group_id},
                   all_liberties),
          !.groups = With(gm.groups, all_stones, new_group_id)]

\* remove_group raises KeyError: a stone of the group has no entry in groups,
\* or the id has no liberty set.
RemoveGroupRaises(gm, group_id) ==
    \/ \E s \in Get(gm.group_stones, group_id) : s \notin DOMAIN gm.groups
    \/ group_id \notin DOMAIN gm.group_liberties

\* A remove_group that forgets the coordinate map.
RemoveGroupKeepsPoints(gm, group_id) ==
    [gm EXCEPT
       !.group_stones = Without(gm.group_stones, {group_id}),
       !.group_liberties = Without(gm.group_liberties, {group_id})]

\* remove_group (when it does not raise)
RemoveGroup(gm, group_id) ==
    [gm EXCEPT
       !.groups = Without(gm.groups, Get(gm.group_stones, group_id)),
       !.group_stones = Without(gm.group_stones, {group_id}),
       !.group_liberties = Without(gm.group_liberties, {group_id})]

\* The liberty set update_adjacent_liberties leaves to an affected group:
\* the placed point is discarded; then the test is on the colour of the
\* PLACED point, board[y, x], so with the stone already on the grid the
\* "friendly" branch runs for every affected group, whatever its colour.
AdjustedLiberties(gm, group_id, y, x, color, b) ==
    LET discarded == Get(gm.group_liberties, group_id) \ {<<y, x>>}
    IN IF b[<<y, x>>] = Opponent(color) THEN discarded
       ELSE IF b[<<y, x>>] = color THEN discarded \cup EmptyAdjacent(b, y, x)
       ELSE discarded

\* update_adjacent_liberties
UpdateAdjacentLiberties(gm, y, x, color, b) ==
    LET affected_groups == GroupIdsOn(gm, Adjacent(y, x))
        adjusted ==
            [id \in DOMAIN gm.group_liberties \cup affected_groups |->
                IF id \in affected_groups
                  THEN AdjustedLiberties(gm, id, y, x, color, b)
                  ELSE gm.group_liberties[id]]
        captured ==
            IF b[<<y, x>>] = Opponent(color)
              THEN {id \in affected_groups : adjusted[id] = {}}
              ELSE {}
        stones == UNION {Get(gm.group_stones, id) : id \in captured}
    IN [gm EXCEPT
          !.group_liberties = Without(adjusted, captured),
          !.group_stones = Without(gm.group_stones, captured),
          !.groups = Without(gm.groups, stones)]

----------------------------------------------------------------------------
(* Board.  B is a record of the Board's fields and its GroupManager's.     *)

Self ==
    [board |-> board, black_captures |-> black_captures,
     white_captures |-> white_captures, position_history |-> position_history,
     current_hash |-> current_hash, groups |-> groups,
     group_stones |-> group_stones, group_liberties |-> group_liberties,
     next_group_id |-> next_group_id]

\* Board.__init__ and Board.reset: the empty grid, its fingerprint committed.
NewBoard ==
    [board |-> EmptyGrid, black_captures |-> 0, white_captures |-> 0,
     position_history |-> {HashPosition(EmptyGrid)},
     current_hash |-> HashPosition(EmptyGrid),
     groups |-> <<>>, group_stones |-> <<>>, group_liberties |-> <<>>,
     next_group_id |-> 0]

\* _analyze_move: the opponent groups next to (y, x) whose tracked liberty set
\* has exactly one element.
CapturedGroups(B, y, x, color) ==
    {id \in GroupIdsOn(B, {q \in Adjacent(y, x) : B.board[q] = Opponent(color)}) :
        Cardinality(Get(B.group_liberties, id)) = 1}

\* _analyze_move: the fingerprint of the position the move would give.
NewHash(B, y, x, color) ==
    LET placed == Xor(B.current_hash, ZobristTable(y, x, color - 1))
        stones == [id \in CapturedGroups(B, y, x, color) |->
                      Get(B.group_stones, id)]
        RECURSIVE Out(_, _)
        Out(h, ids) ==
            IF ids = {} THEN h
            ELSE LET id == Min(ids)
                 IN Out(XorAll(h, stones[id], Opponent(color) - 1), ids \ {id})
    IN Out(placed, DOMAIN stones)

\* An analysis that tests for repetition before it tests for suicide.
AnalyzeMoveKoFirst(B, y, x, color) ==
    LET rejected(reason, libs, stns) ==
            [is_valid |-> FALSE, reason |-> reason, captured_groups |-> {},
             new_liberties |-> {}, liberty_reads |-> libs, stone_reads |-> stns]
        new_liberties == EmptyAdjacent(B.board, y, x)
        opponent_ids ==
            GroupIdsOn(B, {q \in Adjacent(y, x) : B.board[q] = Opponent(color)})
        captured_groups == CapturedGroups(B, y, x, color)
    IN IF ~InBounds(y, x) THEN rejected("out of bounds", {}, {})
       ELSE IF B.board[<<y, x>>] # EMPTY
         THEN rejected("position already occupied", {}, {})
       ELSE IF NewHash(B, y, x, color) \in B.position_history
         THEN rejected("ko rule violation", opponent_ids, captured_groups)
       ELSE IF new_liberties = {} /\ captured_groups = {}
         THEN rejected("suicide move", opponent_ids, {})
       ELSE [is_valid |-> TRUE, reason |-> "", captured_groups |-> captured_groups,
             new_liberties |-> new_liberties, liberty_reads |-> opponent_ids,
             stone_reads |-> captured_groups]

\* _analyze_move: (is_valid, reason, captured_groups, new_liberties), and the
\* ids it reads from the two defaultdicts on the way.
AnalyzeMove(B, y, x, color) ==
    LET rejected(reason, libs, stns) ==
            [is_valid |-> FALSE, reason |-> reason, captured_groups |-> {},
             new_liberties |-> {}, liberty_reads |-> libs, stone_reads |-> stns]
        new_liberties == EmptyAdjacent(B.board, y, x)
        opponent_ids ==
            GroupIdsOn(B, {q \in Adjacent(y, x) : B.board[q] = Opponent(color)})
        captured_groups == CapturedGroups(B, y, x, color)
    IN IF ~InBounds(y, x) THEN rejected("out of bounds", {}, {})
       ELSE IF B.board[<<y, x>>] # EMPTY
         THEN rejected("position already occupied", {}, {})
       ELSE IF new_liberties = {} /\ captured_groups = {}
         THEN rejected("suicide move", opponent_ids, {})
       ELSE IF NewHash(B, y, x, color) \in B.position_history
         THEN rejected("ko rule violation", opponent_ids, captured_groups)
       ELSE [is_valid |-> TRUE, reason |-> "", captured_groups |-> captured_groups,
             new_liberties |-> new_liberties, liberty_reads |-> opponent_ids,
             stone_reads |-> captured_groups]

\* An analysis that already records the fingerprint it computes.
AnalysisRecordsHash(B, y, x, color) ==
    IF InBounds(y, x) /\ B.board[<<y, x>>] = EMPTY
      THEN [B EXCEPT !.position_history =
                        B.position_history \cup {NewHash(B, y, x, color)}]
      ELSE B

\* What the reads of _analyze_move leave in the two defaultdicts.
AfterAnalysis(B, y, x, color) ==
    LET a == AnalyzeMove(B, y, x, color)
    IN [B EXCEPT !.group_liberties = Touch(B.group_liberties, a.liberty_reads),
                 !.group_stones = Touch(B.group_stones, a.stone_reads)]

\* A capture that empties the cells and leaves the fingerprint as it is.
RemoveCapturedKeepsHash(B, group_id, opponent) ==
    LET stones == Get(B.group_stones, group_id)
        cleared ==
            [B EXCEPT
               !.board = [p \in Cells |-> IF p \in stones THEN EMPTY ELSE B.board[p]]]
    IN RemoveGroup(cleared, group_id)

\* place_stone, "Remove captured groups", for one group: its stones leave the
\* grid and the fingerprint, then the group leaves the tracker.
RemoveCaptured(B, group_id, opponent) ==
    LET stones == Get(B.group_stones, group_id)
        cleared ==
            [B EXCEPT
               !.board = [p \in Cells |-> IF p \in stones THEN EMPTY ELSE B.board[p]],
               !.current_hash = XorAll(B.current_hash, stones, opponent - 1)]
    IN RemoveGroup(cleared, group_id)

RECURSIVE RemoveAllCaptured(_, _, _)
RemoveAllCaptured(B, group_ids, opponent) ==
    IF group_ids = {} THEN B
    ELSE LET id == Min(group_ids)
         IN RemoveAllCaptured(RemoveCaptured(B, id, opponent),
                              group_ids \ {id}, opponent)

RECURSIVE CountCaptured(_, _)
\* captured_stones: one for every stone of every captured group.
CountCaptured(B, group_ids) ==
    IF group_ids = {} THEN 0
    ELSE LET id == Min(group_ids)
         IN Cardinality(Get(B.group_stones, id))
              + CountCaptured(B, group_ids \ {id})

\* place_stone, "Place the stone".
PutStone(B, y, x, color) ==
    [B EXCEPT !.board = [B.board EXCEPT ![<<y, x>>] = color],
              !.current_hash = Xor(B.current_hash, ZobristTable(y, x, color - 1))]

\* A placement that makes a new group of every stone.
CreateAlways(B, y, x, color) == CreateGroup(B, y, x, color, B.board)

\* place_stone, "Create or merge groups".
CreateOrMerge(B, y, x, color) ==
    LET adjacent_groups ==
            GroupIdsOn(B, {q \in Adjacent(y, x) : B.board[q] = color})
    IN IF adjacent_groups # {}
         THEN MergeGroups(B, adjacent_groups, <<y, x>>, B.board)
         ELSE CreateGroup(B, y, x, color, B.board)

\* Capture counts credited to the colour that lost the stones.
AddCapturesToLoser(B, color, captured_stones) ==
    IF color = BLACK
      THEN [B EXCEPT !.white_captures = B.white_captures + captured_stones]
      ELSE [B EXCEPT !.black_captures = B.black_captures + captured_stones]

\* place_stone, "Update capture counts".
AddCaptures(B, color, captured_stones) ==
    IF color = BLACK
      THEN [B EXCEPT !.black_captures = B.black_captures + captured_stones]
      ELSE [B EXCEPT !.white_captures = B.white_captures + captured_stones]

\* place_stone, the last step: the new fingerprint joins the repetition set.
Commit(B) == [B EXCEPT !.position_history = B.position_history \cup {B.current_hash}]

\* place_stone of a move _analyze_move accepts.
PlaceStone(B, y, x, color) ==
    LET captured_groups == AnalyzeMove(B, y, x, color).captured_groups
        analysed == AfterAnalysis(B, y, x, color)
        captured_stones == CountCaptured(analysed, captured_groups)
        removed == RemoveAllCaptured(analysed, captured_groups, Opponent(color))
        placed == PutStone(removed, y, x, color)
        grouped == CreateOrMerge(placed, y, x, color)
        updated == UpdateAdjacentLiberties(grouped, y, x, color, grouped.board)
    IN Commit(AddCaptures(updated, color, captured_stones))

\* A colour check that lets every value through.
ColorUnchecked(color) == TRUE

\* place_stone, is_valid_move, get_legal_moves: color in (BLACK, WHITE), or
\* ValueError.
ColorIsValid(color) == color \in {BLACK, WHITE}

\* How place_stone(y, x, color) ends on Board B.
PlaceStoneOutcome(B, y, x, color) ==
    IF ~ColorIsValid(color) THEN "ValueError"
    ELSE IF AnalyzeMove(B, y, x, color).is_valid THEN "True"
    ELSE "InvalidMoveError"

\* How is_valid_move(y, x, color) ends on Board B.
IsValidMoveOutcome(B, y, x, color) ==
    IF ~ColorIsValid(color) THEN "ValueError" ELSE "returned"

\* How get_legal_moves(color) ends.
GetLegalMovesOutcome(color) ==
    IF ~ColorIsValid(color) THEN "ValueError" ELSE "returned"

\* get_legal_moves, the quick check: a neighbour on the board is not empty.
HasAdjacent(b, p) == \E q \in Adjacent(p[1], p[2]) : b[q] # EMPTY

\* A full validation that lets every point through.
CheckedLegalUnchecked(B, p, color) == TRUE

\* get_legal_moves, a point with a stone next to it: is_valid_move decides.
CheckedLegal(B, p, color) == AnalyzeMove(B, p[1], p[2], color).is_valid

\* get_legal_moves, a point with no stone next to it: legal unless the
\* fingerprint with the stone on it is in the repetition set.
ShortcutLegal(B, p, color) ==
    Xor(B.current_hash, ZobristTable(p[1], p[2], color - 1)) \notin B.position_history

\* get_legal_moves(color), as a set: the list is in row order.
GetLegalMoves(B, color) ==
    {p \in Interior :
        /\ B.board[p] = EMPTY
        /\ IF HasAdjacent(B.board, p) THEN CheckedLegal(B, p, color)
           ELSE ShortcutLegal(B, p, color)}

\* The Board get_legal_moves(color) leaves: is_valid_move has run on every
\* empty point with a stone next to it, and has read the two defaultdicts.
\* (A read only adds an empty set for an id without one, which reads as the
\* same empty set afterwards: the order of the points does not matter.)
AfterLegalMoves(B, color) ==
    LET checked == {p \in Interior : B.board[p] = EMPTY /\ HasAdjacent(B.board, p)}
    IN [B EXCEPT
          !.group_liberties =
              Touch(B.group_liberties,
                    UNION {AnalyzeMove(B, p[1], p[2], color).liberty_reads : p \in checked}),
          !.group_stones =
              Touch(B.group_stones,
                    UNION {AnalyzeMove(B, p[1], p[2], color).stone_reads : p \in checked})]

\* A reset that keeps the repetition set.
ResetKeepsHistory(B) ==
    [NewBoard EXCEPT !.position_history = B.position_history \cup {NewBoard.current_hash}]

\* reset: the interior is emptied (the border stays), the counters are 0, the
\* repetition set and the tracker are new, and _update_position_hash computes
\* the fingerprint of the grid and adds it to the set.
ResetBoard(B) ==
    LET cleared == [p \in Cells |-> IF InBounds(p[1], p[2]) THEN EMPTY ELSE B.board[p]]
    IN [board |-> cleared, black_captures |-> 0, white_captures |-> 0,
        position_history |-> {HashPosition(cleared)},
        current_hash |-> HashPosition(cleared),
        groups |-> <<>>, group_stones |-> <<>>, group_liberties |-> <<>>,
        next_group_id |-> 0]

----------------------------------------------------------------------------
(* MoveStack *)

\* What a caller can observe of the Board: the values undo and redo are to
\* bring back.
Observed(B) ==
    [board |-> B.board, black_captures |-> B.black_captures,
     white_captures |-> B.white_captures, current_hash |-> B.current_hash,
     position_history |-> B.position_history]

\* Move(y, x, color), Move(color, is_pass=True), Move(color, is_resign=True),
\* as push stores it: with the snapshot of the fingerprint and of the
\* repetition set.  before and after are history: what the Board looked like
\* when push was called and when it returned.
StoneMove(y, x, color) ==
    [y |-> y, x |-> x, color |-> color, is_pass |-> FALSE, is_resign |-> FALSE]

PassMove(color) ==
    [y |-> None, x |-> None, color |-> color, is_pass |-> TRUE, is_resign |-> FALSE]

ResignMove(color) ==
    [y |-> None, x |-> None, color |-> color, is_pass |-> FALSE, is_resign |-> TRUE]

\* A record that lists the point of the move among its captured stones.
RecordedWithPoint(move, B, captured_stones, after) ==
    [y |-> move.y, x |-> move.x, color |-> move.color,
     is_pass |-> move.is_pass, is_resign |-> move.is_resign,
     captured_stones |-> Append(captured_stones, <<move.y, move.x>>),
     previous_zobrist_hash |-> B.current_hash,
     previous_position_history |-> B.position_history,
     before |-> Observed(B), after |-> Observed(after)]

Recorded(move, B, captured_stones, after) ==
    [y |-> move.y, x |-> move.x, color |-> move.color,
     is_pass |-> move.is_pass, is_resign |-> move.is_resign,
     captured_stones |-> captured_stones,
     previous_zobrist_hash |-> B.current_hash,
     previous_position_history |-> B.position_history,
     before |-> Observed(B), after |-> Observed(after)]

\* A push that appends and keeps the records after the cursor.
AppendOnly(ms, index, record) == Append(ms, record)

\* self.moves = self.moves[:self.current_index + 1]; self.moves.append(move)
TruncateAppend(ms, index, record) == Append(SubSeq(ms, 1, index + 1), record)

\* push: the in-bounds neighbours of the move that hold an opponent stone.  For
\* each of them push calls Board._get_group and Board._get_liberties, which
\* Board does not define: AttributeError, before place_stone is reached.
OpponentNeighbours(b, move) ==
    {q \in Adjacent(move.y, move.x) : b[q] = Opponent(move.color)}

\* push, "Check for potential captures": the stone is put on temp_board, a
\* copy of the grid; the Board is as it was.
Probed(B, move) == B

\* How push(move) ends on Board B: "True", "MoveError" (place_stone rejected
\* the move) or "AttributeError" (the missing Board._get_group was called).
PushOutcome(B, move) ==
    IF move.is_pass \/ move.is_resign THEN "True"
    ELSE IF OpponentNeighbours(B.board, move) # {} THEN "AttributeError"
    ELSE IF AnalyzeMove(Probed(B, move), move.y, move.x, move.color).is_valid
      THEN "True"
    ELSE "MoveError"

\* A pass that clears the repetition set.
PassClearsHistory(B) == [B EXCEPT !.position_history = {B.current_hash}]

\* push of a pass or a resignation: the record is stored, the Board is as it
\* was.
PassPushed(B) == B

\* push(move) on Board B: how it ends, the reason of the error, and the Board
\* it leaves.
PushEffect(B, move) ==
    IF move.is_pass \/ move.is_resign
      THEN [outcome |-> "True", reason |-> "", B |-> PassPushed(B)]
    ELSE IF PushOutcome(B, move) = "AttributeError"
      THEN [outcome |-> "AttributeError", reason |-> "AttributeError",
            B |-> Probed(B, move)]
    ELSE LET probed == Probed(B, move)
             a == AnalyzeMove(probed, move.y, move.x, move.color)
         IN IF a.is_valid
              THEN [outcome |-> "True", reason |-> "",
                    B |-> PlaceStone(probed, move.y, move.x, move.color)]
              ELSE [outcome |-> "MoveError", reason |-> a.reason,
                    B |-> AfterAnalysis(probed, move.y, move.x, move.color)]

\* A stone is left where pop found it.
GridUndoneKeepsStone(b, record) ==
    [p \in Cells |->
        IF \E i \in 1 .. Len(record.captured_stones) : record.captured_stones[i] = p
          THEN Opponent(record.color)
        ELSE b[p]]

\* pop: the grid with the move taken back.
GridUndone(b, record) ==
    [p \in Cells |->
        IF \E i \in 1 .. Len(record.captured_stones) : record.captured_stones[i] = p
          THEN Opponent(record.color)
        ELSE IF p = <<record.y, record.x>> THEN EMPTY
        ELSE b[p]]

\* A pop that leaves the fingerprint as the move made it.
UndoneKeepsFingerprint(B, record) ==
    [B EXCEPT !.board = GridUndone(B.board, record),
              !.position_history = record.previous_position_history]

\* A pop that leaves the repetition set as the later moves made it.
UndoneKeepsHistory(B, record) ==
    [B EXCEPT !.board = GridUndone(B.board, record),
              !.current_hash = record.previous_zobrist_hash]

\* pop of a stone move: the cell is emptied, the captured stones are put back,
\* fingerprint and repetition set are the stored ones.  Capture counters and
\* group tracker are not touched.
Undone(B, record) ==
    [B EXCEPT !.board = GridUndone(B.board, record),
              !.current_hash = record.previous_zobrist_hash,
              !.position_history = record.previous_position_history]

\* forward: the grid with the move made again.
GridRedone(b, record) ==
    [p \in Cells |->
        IF \E i \in 1 .. Len(record.captured_stones) : record.captured_stones[i] = p
          THEN EMPTY
        ELSE IF p = <<record.y, record.x>> THEN record.color
        ELSE b[p]]

RECURSIVE XorSeq(_, _, _)
\* h ^= zobrist_table[y, x, k] for every (y, x) of a list, in turn.
XorSeq(h, stones, k) ==
    IF stones = <<>> THEN h
    ELSE XorSeq(Xor(h, ZobristTable(Head(stones)[1], Head(stones)[2], k)),
                Tail(stones), k)

\* A redo that puts the stone back without its table entry.
HashRedoneWithoutStone(record) ==
    XorSeq(record.previous_zobrist_hash,
           record.captured_stones, Opponent(record.color) - 1)

\* forward: the fingerprint, from the stored one forward.
HashRedone(record) ==
    XorSeq(Xor(record.previous_zobrist_hash,
               ZobristTable(record.y, record.x, record.color - 1)),
           record.captured_stones, Opponent(record.color) - 1)

\* A forward that does not add the fingerprint to the repetition set.
RedoneWithoutAdd(B, record) ==
    [B EXCEPT !.board = GridRedone(B.board, record),
              !.current_hash = HashRedone(record),
              !.position_history = record.previous_position_history]

\* forward of a stone move.
Redone(B, record) ==
    [B EXCEPT !.board = GridRedone(B.board, record),
              !.current_hash = HashRedone(record),
              !.position_history =
                  record.previous_position_history \cup {HashRedone(record)}]

----------------------------------------------------------------------------
(* The inputs the operations are driven with *)

\* The corner of the board the stones are played in.
CornerPoints == {<<1, 1>>, <<1, 2>>, <<1, 3>>, <<2, 1>>, <<2, 2>>}

\* A point off the board.
OutPoint == <<0, 1>>

Colors == {BLACK, WHITE}

\* Values of a cell that are no colour of a player.
BadColors == {EMPTY, OFFBOARD}

\* (y, x, color) of the calls with such a value: on a point of the corner, and
\* off the board.
BadColourInputs == {<<1, 1, EMPTY>>, <<OutPoint[1], OutPoint[2], OFFBOARD>>}

\* (y, x, color) of the calls of the "corner" driver: either colour on every
\* point of the corner, and off the board.
CornerInputs == {<<p[1], p[2], c>> : p \in CornerPoints \cup {OutPoint}, c \in Colors}

\* (y, x, color) of the calls of the "deep" driver: one colour for each point
\* of a 3 x 3 corner, which gives long games with captures on both sides.
DeepInputs ==
    {<<1, 1, WHITE>>, <<3, 1, WHITE>>, <<2, 2, WHITE>>,
     <<1, 2, BLACK>>, <<1, 3, BLACK>>, <<2, 1, BLACK>>,
     <<2, 3, BLACK>>, <<3, 2, BLACK>>}

\* (y, x, color) of the place_stone calls of the "list" driver.
ListInputs == {<<p[1], p[2], c>> : p \in CornerPoints \cup {OutPoint}, c \in Colors}

\* The moves the "stack" driver pushes.
StackPoints == {<<1, 1>>, <<1, 2>>, <<2, 1>>}

StackMoves ==
    {StoneMove(p[1], p[2], c) : p \in StackPoints, c \in Colors}
        \cup {StoneMove(OutPoint[1], OutPoint[2], BLACK),
              PassMove(BLACK), ResignMove(WHITE)}

----------------------------------------------------------------------------
(* The state machine *)

SetBoard(B) ==
    /\ board' = B.board
    /\ black_captures' = B.black_captures
    /\ white_captures' = B.white_captures
    /\ position_history' = B.position_history
    /\ current_hash' = B.current_hash
    /\ groups' = B.groups
    /\ group_stones' = B.group_stones
    /\ group_liberties' = B.group_liberties
    /\ next_group_id' = B.next_group_id

Returned(op, ok, reason) == [op |-> op, ok |-> ok, reason |-> reason]

\* No coordinate is being converted.
Unconverted == [board_size |-> 0, y |-> 0, x |-> 0, sgf |-> <<>>, coord |-> <<>>]

\* A Board, and a MoveStack on it.
Constructed ==
    /\ board = NewBoard.board
    /\ black_captures = NewBoard.black_captures
    /\ white_captures = NewBoard.white_captures
    /\ position_history = NewBoard.position_history
    /\ current_hash = NewBoard.current_hash
    /\ groups = NewBoard.groups
    /\ group_stones = NewBoard.group_stones
    /\ group_liberties = NewBoard.group_liberties
    /\ next_group_id = NewBoard.next_group_id
    /\ moves = <<>>
    /\ current_index = -1
    /\ history_alias = 0
    /\ seen_grids = {EmptyGrid}
    /\ last = Returned("init", TRUE, "")
    /\ pushed = 0
    /\ walk = "idle"
    /\ current_player = BLACK
    /\ moves_history = <<>>
    /\ is_game_over = FALSE
    /\ passes = 0
    /\ winner = None
    /\ turn_history = <<>>
    /\ twin = [made |-> FALSE]

Init == Constructed /\ conv = Unconverted /\ driver \in {"corner", "deep"}

InitStack == Constructed /\ conv = Unconverted /\ driver = "stack"

\* position_history.add(...) on a set that a popped record also refers to
\* changes that record's previous_position_history too.
WriteThrough(ms, alias, history) ==
    IF alias \in 1 .. Len(ms)
      THEN [ms EXCEPT ![alias].previous_position_history = history]
      ELSE ms

\* place_stone raises KeyError out of remove_group: only a tracker that no
\* longer matches the grid can do that.
PlaceStoneRaisesKeyError(B, y, x, color) ==
    LET a == AnalyzeMove(B, y, x, color)
    IN a.is_valid /\ \E id \in a.captured_groups :
                        RemoveGroupRaises(AfterAnalysis(B, y, x, color), id)

\* A call that raises ValueError on its arguments.
BadArgument(op) ==
    /\ last' = Returned(op, FALSE, "ValueError")
    /\ UNCHANGED <<boardVars, stackVars, seen_grids, callerVars, pushed>>

\* Board.place_stone(y, x, color): True, InvalidMoveError with the reason, or
\* ValueError for the colour.
DoPlaceStone(y, x, color) ==
    IF PlaceStoneOutcome(Self, y, x, color) = "ValueError"
      THEN BadArgument("place_stone")
    ELSE
    LET a == AnalyzeMove(Self, y, x, color)
    IN /\ ~PlaceStoneRaisesKeyError(Self, y, x, color)
       /\ IF a.is_valid
            THEN /\ SetBoard(PlaceStone(Self, y, x, color))
                 /\ seen_grids' = seen_grids \cup {board'}
                 /\ moves' = WriteThrough(moves, history_alias, position_history')
                 /\ last' = Returned("place_stone", TRUE, "")
            ELSE /\ SetBoard(AfterAnalysis(Self, y, x, color))
                 /\ seen_grids' = seen_grids
                 /\ moves' = moves
                 /\ last' = Returned("place_stone", FALSE, a.reason)
       /\ UNCHANGED <<current_index, history_alias, callerVars, pushed>>

\* Board.is_valid_move(y, x, color): (is_valid, reason), or ValueError for the
\* colour.
DoIsValidMove(y, x, color) ==
    IF IsValidMoveOutcome(Self, y, x, color) = "ValueError"
      THEN BadArgument("is_valid_move")
    ELSE
    LET a == AnalyzeMove(Self, y, x, color)
    IN /\ SetBoard(AfterAnalysis(Self, y, x, color))
       /\ last' = Returned("is_valid_move", a.is_valid, a.reason)
       /\ UNCHANGED <<stackVars, seen_grids, callerVars, pushed>>

\* Board.get_legal_moves(color): the list, or ValueError for the colour.
DoGetLegalMoves(color) ==
    IF GetLegalMovesOutcome(color) = "ValueError"
      THEN BadArgument("get_legal_moves")
    ELSE /\ SetBoard(AfterLegalMoves(Self, color))
         /\ last' = Returned("get_legal_moves", TRUE, "")
         /\ UNCHANGED <<stackVars, seen_grids, callerVars, pushed>>

\* Board.reset()
DoReset ==
    /\ SetBoard(ResetBoard(Self))
    /\ seen_grids' = {EmptyGrid}
    /\ history_alias' = 0
    /\ last' = Returned("reset", TRUE, "")
    /\ UNCHANGED <<moves, current_index, callerVars, pushed>>

\* MoveStack.push(move): True, MoveError with place_stone's reason, or the
\* AttributeError of the missing Board._get_group.
DoPush(move) ==
    /\ pushed < MaxPushes
    /\ LET e == PushEffect(Self, move)
       IN /\ (~(move.is_pass \/ move.is_resign) /\ e.outcome # "AttributeError")
                => ~PlaceStoneRaisesKeyError(Probed(Self, move),
                                             move.y, move.x, move.color)
          /\ SetBoard(e.B)
          /\ last' = Returned("push", e.outcome = "True", e.reason)
          /\ IF e.outcome = "True"
               THEN /\ moves' = TruncateAppend(moves, current_index,
                                               Recorded(move, Self, <<>>, e.B))
                    /\ current_index' = current_index + 1
                    /\ history_alias' = IF history_alias > current_index + 1
                                          THEN 0 ELSE history_alias
                    /\ seen_grids' = seen_grids \cup {board'}
               ELSE UNCHANGED <<stackVars, seen_grids>>
    /\ pushed' = IF last'.ok THEN pushed + 1 ELSE pushed
    /\ UNCHANGED callerVars

\* The body of pop, for its two callers: op is what `last` names the call,
\* none is how the call ends when there is nothing to take back.
PopCall(op, none) ==
    /\ IF current_index < 0
         THEN /\ last' = Returned(op, FALSE, none)
              /\ UNCHANGED <<boardVars, stackVars>>
         ELSE LET move == moves[current_index + 1]
              IN /\ current_index' = current_index - 1
                 /\ last' = Returned(op, TRUE, "")
                 /\ moves' = moves
                 /\ IF move.is_pass \/ move.is_resign
                      THEN UNCHANGED <<boardVars, history_alias>>
                      ELSE /\ SetBoard(Undone(Self, move))
                           /\ history_alias' = current_index + 1
    /\ UNCHANGED <<seen_grids, callerVars, pushed>>

\* A pop that moves the cursor before it looks at it.
DoPopPastRoot ==
    /\ current_index < 0
    /\ current_index' = current_index - 1
    /\ last' = Returned("pop", FALSE, "None")
    /\ UNCHANGED <<boardVars, moves, history_alias, seen_grids, callerVars, pushed>>

\* MoveStack.pop(): the record taken back, or None.
DoPop == PopCall("pop", "None")

\* MoveStack.back(): pop() is not None.
DoBack == PopCall("back", "")

\* The body of forward, for its callers: op is what `last` names the call,
\* end is how the call ends when there is nothing to redo.
ForwardCall(op, end) ==
    /\ IF current_index + 1 >= Len(moves)
         THEN /\ last' = Returned(op, FALSE, end)
              /\ UNCHANGED <<boardVars, stackVars>>
         ELSE LET next_move == moves[current_index + 2]
              IN /\ current_index' = current_index + 1
                 /\ last' = Returned(op, TRUE, "")
                 /\ moves' = moves
                 /\ IF next_move.is_pass \/ next_move.is_resign
                      THEN UNCHANGED <<boardVars, history_alias>>
                      ELSE /\ SetBoard(Redone(Self, next_move))
                           /\ history_alias' = 0
    /\ UNCHANGED <<seen_grids, callerVars, pushed>>

\* A forward that does not look where the history ends.
DoForwardPastEnd ==
    /\ current_index' = current_index + 1
    /\ last' = Returned("forward", TRUE, "")
    /\ UNCHANGED <<boardVars, moves, history_alias, seen_grids, callerVars, pushed>>

\* MoveStack.forward(): True, or False at the end of the history.
DoForward == ForwardCall("forward", "")

\* The 1-based indices of the stone records among ms[from .. to].
StoneRecords(ms, from, to) ==
    {i \in from .. to : ~ms[i].is_pass /\ ~ms[i].is_resign}

RECURSIVE UndoneDown(_, _, _)
\* while self.pop() is not None: pass -- the Board after the pops from the
\* cursor down to the root.
UndoneDown(B, ms, index) ==
    IF index < 0 THEN B
    ELSE LET move == ms[index + 1]
         IN UndoneDown(IF move.is_pass \/ move.is_resign THEN B ELSE Undone(B, move),
                       ms, index - 1)

\* MoveStack.to_root()
DoToRoot ==
    /\ SetBoard(UndoneDown(Self, moves, current_index))
    /\ current_index' = -1
    /\ moves' = moves
    /\ history_alias' =
          IF StoneRecords(moves, 1, current_index + 1) = {} THEN history_alias
          ELSE Min(StoneRecords(moves, 1, current_index + 1))
    /\ last' = Returned("to_root", TRUE, "")
    /\ UNCHANGED <<seen_grids, callerVars, pushed>>

RECURSIVE RedoneUp(_, _, _)
\* while self.forward(): pass -- the Board after the redos from the cursor up
\* to the end of the history.
RedoneUp(B, ms, index) ==
    IF index + 1 >= Len(ms) THEN B
    ELSE LET next_move == ms[index + 2]
         IN RedoneUp(IF next_move.is_pass \/ next_move.is_resign
                       THEN B ELSE Redone(B, next_move),
                     ms, index + 1)

\* MoveStack.to_end()
DoToEnd ==
    /\ SetBoard(RedoneUp(Self, moves, current_index))
    /\ current_index' = IF current_index + 1 >= Len(moves)
                          THEN current_index ELSE Len(moves) - 1
    /\ moves' = moves
    /\ history_alias' =
          IF StoneRecords(moves, current_index + 2, Len(moves)) = {}
            THEN history_alias ELSE 0
    /\ last' = Returned("to_end", TRUE, "")
    /\ UNCHANGED <<seen_grids, callerVars, pushed>>

\* MoveStack.peek(): the record at the cursor, or None.
DoPeek ==
    /\ last' = Returned("peek", current_index >= 0, "")
    /\ UNCHANGED <<boardVars, stackVars, seen_grids, callerVars, pushed>>

\* MoveStack.peek_next(): the record after the cursor, or None.
DoPeekNext ==
    /\ last' = Returned("peek_next", current_index + 1 < Len(moves), "")
    /\ UNCHANGED <<boardVars, stackVars, seen_grids, callerVars, pushed>>

\* MoveStack.__len__ and MoveStack.current_position
StackLen == Len(moves)

CurrentPosition == current_index + 1

\* A call of the Board or of the MoveStack made outside any Game and outside
\* the loops of to_root and to_end.
Idle == walk = "idle" /\ UNCHANGED <<walk, gameVars>>

PlaceInCorner ==
    /\ driver = "corner"
    /\ Idle
    /\ \E m \in CornerInputs : DoPlaceStone(m[1], m[2], m[3])

CheckInCorner ==
    /\ driver = "corner"
    /\ Idle
    /\ \E m \in CornerInputs : DoIsValidMove(m[1], m[2], m[3])

ResetCorner == driver = "corner" /\ Idle /\ DoReset

\* The "deep" driver calls place_stone on empty points only: calls on occupied
\* points are made by the "corner" driver.
PlaceDeep ==
    /\ driver = "deep"
    /\ Idle
    /\ \E m \in DeepInputs :
          /\ board[<<m[1], m[2]>>] = EMPTY
          /\ DoPlaceStone(m[1], m[2], m[3])

Next == PlaceInCorner \/ CheckInCorner \/ ResetCorner \/ PlaceDeep

Spec == Init /\ [][Next]_vars

\* The "list" driver: a caller that places stones in a corner, resets, asks
\* for the legal moves, and makes calls with a bad colour.
InitList == Constructed /\ conv = Unconverted /\ driver = "list"

PlaceForList ==
    /\ driver = "list"
    /\ Idle
    /\ \E m \in ListInputs : DoPlaceStone(m[1], m[2], m[3])

ResetForList == driver = "list" /\ Idle /\ DoReset

ListMoves == driver = "list" /\ Idle /\ \E c \in Colors : DoGetLegalMoves(c)

\* Calls with a colour that is neither BLACK nor WHITE.
BadColour ==
    /\ driver = "list"
    /\ Idle
    /\ \/ \E m \in BadColourInputs : DoPlaceStone(m[1], m[2], m[3])
       \/ \E m \in BadColourInputs : DoIsValidMove(m[1], m[2], m[3])
       \/ DoGetLegalMoves(EMPTY)

NextList == PlaceForList \/ ResetForList \/ ListMoves \/ BadColour

SpecList == InitList /\ [][NextList]_vars

Push == Idle /\ \E m \in StackMoves : DoPush(m)

Pop == Idle /\ DoPop

Back == Idle /\ DoBack

Forward == Idle /\ DoForward

ToRoot == Idle /\ DoToRoot

ToEnd == Idle /\ DoToEnd

Peek == Idle /\ DoPeek

PeekNext == Idle /\ DoPeekNext

NextStack ==
    \/ Push
    \/ Pop
    \/ Back
    \/ Forward
    \/ ToRoot
    \/ ToEnd
    \/ Peek
    \/ PeekNext

SpecStack == InitStack /\ [][NextStack]_vars

\* to_root and to_end, one turn of their loops at a time.  The call is
\* entered, then each step evaluates the loop condition, self.pop() is not
\* None or self.forward(), with its effect; the step on which the condition
\* is false leaves the loop, and the method returns.
InitWalk == Constructed /\ conv = Unconverted /\ driver = "walk"

EnterToRoot ==
    /\ walk = "idle"
    /\ walk' = "to_root"
    /\ last' = Returned("to_root", FALSE, "entered")
    /\ UNCHANGED <<boardVars, stackVars, seen_grids, callerVars, pushed, gameVars>>

\* A loop that looks at the record at the cursor and leaves it there.
StepToRootPeeks ==
    /\ walk = "to_root"
    /\ walk' = IF current_index < 0 THEN "idle" ELSE "to_root"
    /\ last' = IF current_index < 0 THEN Returned("to_root", FALSE, "returned")
                ELSE Returned("to_root", TRUE, "")
    /\ UNCHANGED <<boardVars, stackVars, seen_grids, callerVars, pushed, gameVars>>

StepToRoot ==
    /\ walk = "to_root"
    /\ PopCall("to_root", "returned")
    /\ walk' = IF current_index < 0 THEN "idle" ELSE "to_root"
    /\ UNCHANGED gameVars

EnterToEnd ==
    /\ walk = "idle"
    /\ walk' = "to_end"
    /\ last' = Returned("to_end", FALSE, "entered")
    /\ UNCHANGED <<boardVars, stackVars, seen_grids, callerVars, pushed, gameVars>>

StepToEnd ==
    /\ walk = "to_end"
    /\ ForwardCall("to_end", "returned")
    /\ walk' = IF current_index + 1 >= Len(moves) THEN "idle" ELSE "to_end"
    /\ UNCHANGED gameVars

NextWalk ==
    \/ Push
    \/ Pop
    \/ Forward
    \/ EnterToRoot
    \/ StepToRoot
    \/ EnterToEnd
    \/ StepToEnd

\* Once entered, a loop keeps running: nothing else runs in the caller.
SpecWalk ==
    InitWalk /\ [][NextWalk]_vars /\ WF_vars(StepToRoot) /\ WF_vars(StepToEnd)

\* A caller that holds the Board and a MoveStack on it, and calls place_stone
\* on the Board right after it has taken a move back.
InitBeside == Constructed /\ conv = Unconverted /\ driver = "beside"

\* The point it places on: beside the ones the stack plays on.
BesidePoints == {<<2, 2>>}

PushBeside == Idle /\ \E p \in StackPoints : DoPush(StoneMove(p[1], p[2], BLACK))

PlaceBeside ==
    /\ Idle
    /\ last.op = "pop"
    /\ next_group_id < MaxGroups
    /\ \E p \in BesidePoints : DoPlaceStone(p[1], p[2], BLACK)

NextBeside == PushBeside \/ Pop \/ Forward \/ PlaceBeside

SpecBeside == InitBeside /\ [][NextBeside]_vars

\* The "mixed" driver: a caller that holds the Board and a MoveStack on it,
\* calls place_stone on the Board after it has taken a move back, and resets
\* the Board between the calls of the stack.
InitMixed == Constructed /\ conv = Unconverted /\ driver = "mixed"

ResetMixed == driver = "mixed" /\ Idle /\ last.op = "push" /\ DoReset

NextMixed == PushBeside \/ Pop \/ Forward \/ PlaceBeside \/ ResetMixed

SpecMixed == InitMixed /\ [][NextMixed]_vars

----------------------------------------------------------------------------
(* GroupManager, called directly *)

\* The points the "tracker" driver uses, a row of three, and the ids it
\* reads and removes: the first two the tracker gives out.
TrackerPoints == {<<1, 1>>, <<1, 2>>, <<1, 3>>}

TrackerIds == {0, 1}

InitTracker == Constructed /\ conv = Unconverted /\ driver = "tracker"

\* What a call on the GroupManager leaves alone.
TrackerFrame ==
    UNCHANGED <<black_captures, white_captures, position_history, current_hash,
                stackVars, seen_grids, callerVars, pushed, walk, gameVars>>

\* A stone written on the grid, as the caller of create_group and of
\* merge_groups does before the call.
StoneWritten(B, y, x, color) ==
    [B EXCEPT !.board = [p \in Cells |-> IF p = <<y, x>> THEN color ELSE B.board[p]]]

\* board[y, x] = color; create_group(y, x, color, board)
DoCreateGroup(y, x, color) ==
    /\ board[<<y, x>>] = EMPTY
    /\ next_group_id < MaxGroups
    /\ \E written \in {StoneWritten(Self, y, x, color)} :
          SetBoard(CreateGroup(written, y, x, color, written.board))
    /\ last' = Returned("create_group", TRUE, "")
    /\ TrackerFrame

\* board[y, x] = color; merge_groups(group_ids, (y, x), board): the id, or
\* ValueError for an empty set of ids.
DoMergeGroups(group_ids, y, x, color) ==
    /\ board[<<y, x>>] = EMPTY
    /\ IF group_ids = {}
         THEN /\ SetBoard(Self)
              /\ last' = Returned("merge_groups", FALSE, "ValueError")
         ELSE /\ \E written \in {StoneWritten(Self, y, x, color)} :
                    SetBoard(MergeGroups(written, group_ids, <<y, x>>, written.board))
              /\ last' = Returned("merge_groups", TRUE, "")
    /\ TrackerFrame

\* remove_group(group_id).  It reads group_stones[group_id], deletes the
\* entries of the stones and of the id, and then the liberty set: KeyError
\* there if the id has none.
DoRemoveGroup(group_id) ==
    /\ \A q \in Get(group_stones, group_id) : q \in DOMAIN groups
    /\ IF RemoveGroupRaises(Self, group_id)
         THEN /\ groups' = Without(groups, Get(group_stones, group_id))
              /\ group_stones' = Without(group_stones, {group_id})
              /\ last' = Returned("remove_group", FALSE, "KeyError")
              /\ UNCHANGED <<board, group_liberties, next_group_id>>
         ELSE /\ \E removed \in {RemoveGroup(Self, group_id)} :
                    /\ groups' = removed.groups
                    /\ group_stones' = removed.group_stones
                    /\ group_liberties' = removed.group_liberties
              /\ last' = Returned("remove_group", TRUE, "")
              /\ UNCHANGED <<board, next_group_id>>
    /\ TrackerFrame

\* get_group_stones(group_id): group_stones is a defaultdict, so the read
\* returns the set of a known id and makes an empty one for any other.
DoGetGroupStones(group_id) ==
    /\ group_stones' = Touch(group_stones, {group_id})
    /\ last' = Returned("get_group_stones", TRUE, "")
    /\ UNCHANGED <<board, groups, group_liberties, next_group_id>>
    /\ TrackerFrame

\* get_group_liberties(group_id): the same, on group_liberties.
DoGetGroupLiberties(group_id) ==
    /\ group_liberties' = Touch(group_liberties, {group_id})
    /\ last' = Returned("get_group_liberties", TRUE, "")
    /\ UNCHANGED <<board, groups, group_stones, next_group_id>>
    /\ TrackerFrame

\* get_group_id(y, x): the id, or None.
DoGetGroupId(y, x) ==
    /\ last' = Returned("get_group_id", GetGroupId(Self, <<y, x>>) # None, "")
    /\ UNCHANGED boardVars
    /\ TrackerFrame

CreateGroupCall == driver = "tracker" /\ \E p \in TrackerPoints : DoCreateGroup(p[1], p[2], BLACK)

MergeGroupsCall ==
    driver = "tracker" /\ \E group_ids \in SUBSET (0 .. MaxGroups - 1), p \in TrackerPoints :
        /\ group_ids \subseteq DOMAIN group_stones
        /\ DoMergeGroups(group_ids, p[1], p[2], BLACK)

RemoveGroupCall == driver = "tracker" /\ \E id \in TrackerIds : DoRemoveGroup(id)

GetGroupStonesCall == driver = "tracker" /\ \E id \in TrackerIds : DoGetGroupStones(id)

GetGroupLibertiesCall == driver = "tracker" /\ \E id \in TrackerIds : DoGetGroupLiberties(id)

GetGroupIdCall == driver = "tracker" /\ \E p \in TrackerPoints : DoGetGroupId(p[1], p[2])

NextTracker ==
    \/ CreateGroupCall
    \/ MergeGroupsCall
    \/ RemoveGroupCall
    \/ GetGroupStonesCall
    \/ GetGroupLibertiesCall
    \/ GetGroupIdCall

SpecTracker == InitTracker /\ [][NextTracker]_vars

----------------------------------------------------------------------------
(* Game *)

\* The points the "game" driver plays on.
GamePoints == StackPoints

\* Twice the komi Game is constructed with, 6.5 by default: scores are
\* compared doubled, in integers.
KomiDoubled == 2 * 6 + 1

\* One round of the BFS: the region, and the empty points next to it.
Grown(b, region) ==
    region \cup {q \in UNION {Adjacent(p[1], p[2]) : p \in region} : b[q] = EMPTY}

RECURSIVE EmptyRegion(_, _)
\* _optimized_flood_fill, the BFS: the empty points connected to `region`.
\* (Each round is bound to a name, so that it is computed once.)
EmptyRegion(b, region) ==
    UNION {IF grown = region THEN region ELSE EmptyRegion(b, grown) :
              grown \in {Grown(b, region)}}

\* The colours of the stones an empty region borders on.
Borders(b, region) ==
    {b[q] : q \in UNION {Adjacent(p[1], p[2]) : p \in region}} \cap Colors

\* _optimized_flood_fill: the empty points of the regions that border on
\* stones of `color` and on none of the other colour.
Territory(b, color) ==
    {p \in Interior : /\ b[p] = EMPTY
                      /\ Borders(b, EmptyRegion(b, {p})) = {color}}

\* _get_area_score, doubled: territory and stones, and the komi for White.
AreaScoreDoubled(b, color) ==
    2 * (Cardinality(Territory(b, color))
           + Cardinality({p \in Interior : b[p] = color}))
      + (IF color = WHITE THEN KomiDoubled ELSE 0)

\* _determine_winner: BLACK, WHITE, or 0 for a tie.
DetermineWinner(b) ==
    IF AreaScoreDoubled(b, BLACK) > AreaScoreDoubled(b, WHITE) THEN BLACK
    ELSE IF AreaScoreDoubled(b, WHITE) > AreaScoreDoubled(b, BLACK) THEN WHITE
    ELSE 0

\* play(y, x) after place_stone has accepted the move and left the Board
\* `placed`: push of the same move.  A MoveError is a GoError and is raised
\* again as InvalidMoveError; an AttributeError is not, and escapes.
PlayPushed(placed, y, x, color) ==
    LET e == PushEffect(placed, StoneMove(y, x, color))
    IN [outcome |-> IF e.outcome = "MoveError" THEN "InvalidMoveError"
                    ELSE e.outcome,
        reason |-> e.reason, accepted |-> TRUE, placed |-> placed, B |-> e.B]

\* play(y, x), from "Handle stone placement" on, on Board B for the player
\* `color`: place_stone, then push on the Board place_stone has left.
\* `outcome` is "True", "InvalidMoveError" or "AttributeError".
PlayEffect(B, y, x, color) ==
    LET a == AnalyzeMove(B, y, x, color)
    IN IF ~a.is_valid
         THEN [outcome |-> "InvalidMoveError", reason |-> a.reason,
               accepted |-> FALSE, placed |-> B,
               B |-> AfterAnalysis(B, y, x, color)]
         ELSE CHOOSE effect \in {PlayPushed(placed, y, x, color) :
                                    placed \in {PlaceStone(B, y, x, color)}} : TRUE

InitGame == Constructed /\ conv = Unconverted /\ driver = "game"

\* What every call of Game leaves alone.
GameFrame == UNCHANGED <<callerVars, walk>>

\* A call that clears the pass count before it raises.
RaisedAfterClearing(op, reason) ==
    /\ last' = Returned(op, FALSE, reason)
    /\ passes' = 0
    /\ UNCHANGED <<boardVars, stackVars, seen_grids, pushed, current_player,
                   moves_history, is_game_over, winner, turn_history>>

\* A call that raises before it has done anything.
Raised(op, reason) ==
    /\ last' = Returned(op, FALSE, reason)
    /\ UNCHANGED <<boardVars, stackVars, gameVars, seen_grids, pushed>>

\* Game.play(y, x): True, GameError when the game is over, InvalidMoveError
\* with the reason, or the AttributeError of push.
DoPlay(y, x) ==
    IF is_game_over THEN Raised("play", "GameError")
    ELSE \E e \in {PlayEffect(Self, y, x, current_player)} :
            /\ ~PlaceStoneRaisesKeyError(Self, y, x, current_player)
            /\ SetBoard(e.B)
            /\ seen_grids' = seen_grids \cup {board'}
            /\ last' = Returned("play", e.outcome = "True", e.reason)
            /\ IF e.outcome = "True"
                 THEN /\ moves' = TruncateAppend(
                                     WriteThrough(moves, history_alias,
                                                  e.placed.position_history),
                                     current_index,
                                     Recorded(StoneMove(y, x, current_player),
                                              e.placed, <<>>, e.B))
                      /\ current_index' = current_index + 1
                      /\ history_alias' = IF history_alias > current_index + 1
                                            THEN 0 ELSE history_alias
                      /\ pushed' = pushed + 1
                      /\ moves_history' = Append(moves_history, <<y, x>>)
                      /\ turn_history' = Append(turn_history, current_player)
                      /\ passes' = 0
                      /\ current_player' = Opponent(current_player)
                      /\ UNCHANGED <<is_game_over, winner>>
                 ELSE /\ moves' = IF e.accepted
                                    THEN WriteThrough(moves, history_alias,
                                                      e.placed.position_history)
                                    ELSE moves
                      /\ UNCHANGED <<current_index, history_alias, pushed, gameVars>>

\* Game.play(): a pass.  The second pass in a row ends the game.
DoPlayPass ==
    IF is_game_over THEN Raised("play", "GameError")
    ELSE LET move == PassMove(current_player)
             e == PushEffect(Self, move)
         IN /\ SetBoard(e.B)
            /\ moves' = TruncateAppend(moves, current_index,
                                       Recorded(move, Self, <<>>, e.B))
            /\ current_index' = current_index + 1
            /\ history_alias' = IF history_alias > current_index + 1
                                  THEN 0 ELSE history_alias
            /\ pushed' = pushed + 1
            /\ moves_history' = Append(moves_history, "pass")
            /\ turn_history' = Append(turn_history, current_player)
            /\ passes' = passes + 1
            /\ is_game_over' = (passes' >= 2)
            /\ winner' = IF passes' >= 2 THEN DetermineWinner(board) ELSE winner
            /\ current_player' = Opponent(current_player)
            /\ last' = Returned("play", TRUE, "pass")
            /\ UNCHANGED seen_grids

\* Game.undo(): True, or GameError when moves_history is empty.
DoUndo ==
    IF moves_history = <<>> THEN Raised("undo", "GameError")
    ELSE /\ PopCall("undo", "False")
         /\ IF current_index >= 0
              THEN LET move == moves[current_index + 1]
                   IN /\ moves_history' = SubSeq(moves_history, 1,
                                                 Len(moves_history) - 1)
                      /\ turn_history' = SubSeq(turn_history, 1,
                                                Len(turn_history) - 1)
                      /\ passes' = IF move.is_pass
                                     THEN (IF passes - 1 > 0 THEN passes - 1 ELSE 0)
                                     ELSE passes
                      /\ is_game_over' = FALSE
                      /\ winner' = IF is_game_over THEN None ELSE winner
                      /\ current_player' = move.color
              ELSE UNCHANGED gameVars

\* Game.resign(color): True, or GameError when the game is over.
DoResign(color) ==
    IF is_game_over THEN Raised("resign", "GameError")
    ELSE LET move == ResignMove(color)
             e == PushEffect(Self, move)
         IN /\ SetBoard(e.B)
            /\ moves' = TruncateAppend(moves, current_index,
                                       Recorded(move, Self, <<>>, e.B))
            /\ current_index' = current_index + 1
            /\ history_alias' = IF history_alias > current_index + 1
                                  THEN 0 ELSE history_alias
            /\ pushed' = pushed + 1
            /\ moves_history' = Append(moves_history, "resign")
            /\ turn_history' = Append(turn_history, current_player)
            /\ is_game_over' = TRUE
            /\ winner' = Opponent(color)
            /\ last' = Returned("resign", TRUE, "")
            /\ UNCHANGED <<seen_grids, current_player, passes>>

\* Game.get_legal_moves(): the list for the player to move, or GameError
\* when the game is over.
DoGameGetLegalMoves ==
    IF is_game_over THEN Raised("get_legal_moves", "GameError")
    ELSE /\ DoGetLegalMoves(current_player)
         /\ UNCHANGED gameVars

\* Game.reset(): the Board is reset, the fields are as after construction,
\* and the session has a new, empty MoveStack.
DoGameReset ==
    /\ SetBoard(ResetBoard(Self))
    /\ seen_grids' = {EmptyGrid}
    /\ moves' = <<>>
    /\ current_index' = -1
    /\ history_alias' = 0
    /\ current_player' = BLACK
    /\ moves_history' = <<>>
    /\ turn_history' = <<>>
    /\ is_game_over' = FALSE
    /\ passes' = 0
    /\ winner' = None
    /\ last' = Returned("reset", TRUE, "")
    /\ pushed' = pushed

\* The "game" driver: a session that stores at most MaxPushes moves.
Play ==
    /\ is_game_over \/ pushed < MaxPushes
    /\ GameFrame
    /\ \E p \in GamePoints : DoPlay(p[1], p[2])

PlayPass == (is_game_over \/ pushed < MaxPushes) /\ GameFrame /\ DoPlayPass

Undo == GameFrame /\ DoUndo

\* resign() gives up for the player to move, resign(color) for `color`.
Resign ==
    /\ is_game_over \/ pushed < MaxPushes
    /\ GameFrame
    /\ \E color \in Colors : DoResign(color)

GameGetLegalMoves == GameFrame /\ DoGameGetLegalMoves

GameReset == GameFrame /\ DoGameReset

NextGame ==
    \/ Play
    \/ PlayPass
    \/ Undo
    \/ Resign
    \/ GameGetLegalMoves
    \/ GameReset

SpecGame == InitGame /\ [][NextGame]_vars

----------------------------------------------------------------------------
(* game.py: Game.copy *)

\* The Game that copy() would build if it handed its own position_history
\* to the new Board instead of a copy of it.
GameCopySharingHistory ==
    [made |-> TRUE,
     board |-> [NewBoard EXCEPT !.board = board,
                                !.black_captures = black_captures,
                                !.white_captures = white_captures,
                                !.current_hash = current_hash,
                                !.position_history = position_history],
     same_board |-> FALSE, same_position_history |-> TRUE,
     current_player |-> current_player, moves_history |-> moves_history,
     is_game_over |-> is_game_over, passes |-> passes, winner |-> winner,
     moves |-> <<>>, current_index |-> -1]

\* Game.copy(): a new Game, hence a new Board with a new tracker and a new
\* MoveStack; then the grid (a copy), the counters, the fingerprint, the
\* repetition set (a copy) and the fields of Game are assigned.  same_board
\* and same_position_history say whether the new Board refers to the very
\* array and the very set of this Board.
GameCopy ==
    [made |-> TRUE,
     board |-> [NewBoard EXCEPT !.board = board,
                                !.black_captures = black_captures,
                                !.white_captures = white_captures,
                                !.current_hash = current_hash,
                                !.position_history = position_history],
     same_board |-> FALSE, same_position_history |-> FALSE,
     current_player |-> current_player, moves_history |-> moves_history,
     is_game_over |-> is_game_over, passes |-> passes, winner |-> winner,
     moves |-> <<>>, current_index |-> -1]

DoCopy ==
    /\ twin' = GameCopy
    /\ last' = Returned("copy", TRUE, "")
    /\ UNCHANGED <<boardVars, stackVars, gameVars, seen_grids, pushed>>

\* What a call on this Game does to the copy: writes into an array or a set
\* that the copy refers to as well show in the copy.
TwinFollows ==
    twin' = IF twin.made
              THEN [twin EXCEPT
                      !.board.board = IF twin.same_board THEN board' ELSE @,
                      !.board.position_history =
                          IF twin.same_position_history
                            THEN position_history' ELSE @]
              ELSE twin

\* play(y, x) on the copy.  place_stone writes into the copy's grid and adds
\* to its repetition set; the counters and the fingerprint are assigned.
DoTwinPlay(y, x) ==
    IF twin.is_game_over
      THEN /\ last' = Returned("copy.play", FALSE, "GameError")
           /\ UNCHANGED <<boardVars, stackVars, gameVars, seen_grids, pushed, twin>>
      ELSE \E e \in {PlayEffect(twin.board, y, x, twin.current_player)} :
              /\ ~PlaceStoneRaisesKeyError(twin.board, y, x, twin.current_player)
              /\ last' = Returned("copy.play", e.outcome = "True", e.reason)
              /\ twin' = IF e.outcome = "True"
                   THEN [twin EXCEPT
                           !.board = e.B,
                           !.moves = TruncateAppend(
                                        @, twin.current_index,
                                        Recorded(StoneMove(y, x, twin.current_player),
                                                 e.placed, <<>>, e.B)),
                           !.current_index = @ + 1,
                           !.moves_history = Append(@, <<y, x>>),
                           !.passes = 0,
                           !.current_player = Opponent(@)]
                   ELSE [twin EXCEPT !.board = e.B]
              /\ board' = IF twin.same_board THEN e.B.board ELSE board
              /\ position_history' =
                    IF twin.same_position_history
                      THEN e.B.position_history ELSE position_history
              /\ moves' = IF twin.same_position_history
                            THEN WriteThrough(moves, history_alias,
                                              e.B.position_history)
                            ELSE moves
              /\ seen_grids' = seen_grids \cup {board'}
              /\ UNCHANGED <<black_captures, white_captures, current_hash,
                             groups, group_stones, group_liberties,
                             next_group_id, current_index, history_alias,
                             gameVars, pushed>>

\* The "copy" driver: a session that plays on three points and passes, is
\* copied once, and then plays on beside its copy.
CopyPoints == {<<1, 1>>, <<1, 2>>, <<2, 1>>}

InitCopy == Constructed /\ conv = Unconverted /\ driver = "copy"

CopyFrame == UNCHANGED <<driver, conv, walk>>

PlayOriginal ==
    /\ driver = "copy"
    /\ is_game_over \/ pushed < MaxPushes
    /\ \E p \in CopyPoints : DoPlay(p[1], p[2])
    /\ TwinFollows
    /\ CopyFrame

\* The session passes before it is copied only: a pass writes to no Board.
PassOriginal ==
    /\ driver = "copy"
    /\ ~twin.made
    /\ is_game_over \/ pushed < MaxPushes
    /\ DoPlayPass
    /\ TwinFollows
    /\ CopyFrame

Copy == driver = "copy" /\ ~twin.made /\ DoCopy /\ CopyFrame

PlayTwin ==
    /\ driver = "copy"
    /\ twin.made
    /\ \E p \in CopyPoints : DoTwinPlay(p[1], p[2])
    /\ CopyFrame

NextCopy == PlayOriginal \/ PassOriginal \/ Copy \/ PlayTwin

SpecCopy == InitCopy /\ [][NextCopy]_vars

\* Board.place_stone(y, x, color) on Board B, for a colour of a player:
\* whether it returned True, the reason if it did not, and the Board it
\* leaves.
PlaceEffect(B, y, x, color) ==
    LET a == AnalyzeMove(B, y, x, color)
    IN IF a.is_valid
         THEN [ok |-> TRUE, reason |-> "", B |-> PlaceStone(B, y, x, color)]
         ELSE [ok |-> FALSE, reason |-> a.reason,
               B |-> AfterAnalysis(B, y, x, color)]

\* The "alike" driver: a caller that places stones on the Board of a Game,
\* copies the Game once, and from then on makes every place_stone call on
\* both Boards.
AlikeInputs == {<<p[1], p[2], c>> : p \in CopyPoints, c \in Colors}

InitAlike == Constructed /\ conv = Unconverted /\ driver = "alike"

PlaceAlone ==
    /\ driver = "alike"
    /\ ~twin.made
    /\ Idle
    /\ \E m \in AlikeInputs : DoPlaceStone(m[1], m[2], m[3])

CopyAlike == driver = "alike" /\ ~twin.made /\ DoCopy /\ CopyFrame

\* The same place_stone call on the Board of the Game and on the Board of
\* its copy, which share neither array nor set.
PlaceBoth ==
    /\ driver = "alike"
    /\ twin.made
    /\ ~twin.same_board /\ ~twin.same_position_history
    /\ \E m \in AlikeInputs :
          \E o \in {PlaceEffect(Self, m[1], m[2], m[3])},
             t \in {PlaceEffect(twin.board, m[1], m[2], m[3])} :
             /\ ~PlaceStoneRaisesKeyError(Self, m[1], m[2], m[3])
             /\ ~PlaceStoneRaisesKeyError(twin.board, m[1], m[2], m[3])
             /\ SetBoard(o.B)
             /\ seen_grids' = seen_grids \cup {board'}
             /\ last' = Returned("place_stone", o.ok, o.reason)
             /\ twin' = [twin EXCEPT !.board = t.B]
    /\ UNCHANGED <<stackVars, gameVars, pushed>>
    /\ CopyFrame

NextAlike == PlaceAlone \/ CopyAlike \/ PlaceBoth

SpecAlike == InitAlike /\ [][NextAlike]_vars

----------------------------------------------------------------------------
(* utils.py: SGF coordinates *)

\* The sizes Game accepts for a board.
MinBoardSize == 5
MaxBoardSize == 25

\* The characters from 'a' on, in the order of their code points.
Letters ==
    <<"a", "b", "c", "d", "e", "f", "g", "h", "i", "j", "k", "l", "m", "n",
      "o", "p", "q", "r", "s", "t", "u", "v", "w", "x", "y", "z", "{", "|">>

\* ord(ch) and chr(code), for the characters of Letters ('a' is 97).
Ord(ch) == 96 + CHOOSE i \in 1 .. Len(Letters) : Letters[i] = ch

Chr(code) == Letters[code - 96]

\* coord_to_sgf(y, x, board_size): the text, as the sequence of its characters.
coord_to_sgf(y, x, board_size) ==
    LET col == Chr(Ord("a") + x - 1)
        row == Chr(Ord("a") + board_size - y)
    IN <<col, row>>

\* A reading that returns the column before the row.
sgf_to_coord_col_first(sgf, board_size) ==
    LET col == Ord(sgf[1]) - Ord("a") + 1
        row == board_size - (Ord(sgf[2]) - Ord("a"))
    IN <<col, row>>

\* sgf_to_coord(sgf, board_size): (row, col).
sgf_to_coord(sgf, board_size) ==
    LET col == Ord(sgf[1]) - Ord("a") + 1
        row == board_size - (Ord(sgf[2]) - Ord("a"))
    IN <<row, col>>

\* The "sgf" driver: a caller that holds a point of a board of some size,
\* writes it as SGF text and reads the text back.
InitSgf ==
    /\ Constructed
    /\ driver = "sgf"
    /\ \E board_size \in MinBoardSize .. MaxBoardSize :
          \E y \in 1 .. board_size, x \in 1 .. board_size :
             conv = [board_size |-> board_size, y |-> y, x |-> x,
                     sgf |-> <<>>, coord |-> <<>>]

SgfFrame ==
    UNCHANGED <<boardVars, stackVars, gameVars, seen_grids, driver, twin,
                pushed, walk>>

CoordToSgf ==
    /\ driver = "sgf"
    /\ conv.sgf = <<>>
    /\ conv' = [conv EXCEPT !.sgf = coord_to_sgf(conv.y, conv.x, conv.board_size)]
    /\ last' = Returned("coord_to_sgf", TRUE, "")
    /\ SgfFrame

SgfToCoord ==
    /\ driver = "sgf"
    /\ conv.sgf # <<>>
    /\ conv.coord = <<>>
    /\ conv' = [conv EXCEPT !.coord = sgf_to_coord(conv.sgf, conv.board_size)]
    /\ last' = Returned("sgf_to_coord", TRUE, "")
    /\ SgfFrame

NextSgf == CoordToSgf \/ SgfToCoord

SpecSgf == InitSgf /\ [][NextSgf]_vars

----------------------------------------------------------------------------
(* What the claims speak about *)

\* The occupied interior cells of grid b.
Occupied(b) == {p \in Interior : b[p] \in Colors}

RECURSIVE Flood(_, _, _)
Flood(b, color, chain) ==
    LET more == {q \in UNION {Adjacent(p[1], p[2]) : p \in chain} : b[q] = color}
                    \ chain
    IN IF more = {} THEN chain ELSE Flood(b, color, chain \cup more)

\* The maximal 4-connected set of same-coloured stones around p, from the grid.
ChainOf(b, p) == Flood(b, b[p], {p})

\* The empty cells next to a set of stones, from the grid.
LibertiesOf(b, stones) ==
    {q \in UNION {Adjacent(p[1], p[2]) : p \in stones} : b[q] = EMPTY}

\* The calls the driver may make next.
PlaceInputs ==
    IF driver = "corner" THEN CornerInputs
    ELSE IF driver = "deep" THEN DeepInputs
    ELSE {}

\* The grid a placement would leave: the groups the analysis captures are
\* gone and the stone is on its point.
ResultGrid(B, y, x, color) ==
    PutStone(RemoveAllCaptured(B, CapturedGroups(B, y, x, color), Opponent(color)),
             y, x, color).board

\* The last call was a place_stone that returned True.
Placed == last = Returned("place_stone", TRUE, "")

\* The last call was a place_stone that raised InvalidMoveError.
Rejected == last.op = "place_stone" /\ ~last.ok

----------------------------------------------------------------------------
(* C1: after any sequence of place_stone calls, accepted or rejected, the   *)
(* stored fingerprint is the XOR of the table entries of the stones on the  *)
(* grid.                                                                    *)
C1_HashMatchesGrid == current_hash = HashPosition(board)

\* Stones of both colours have been captured and the last placement left
\* stones on the grid.
C1_Witness ==
    /\ Placed
    /\ black_captures > 0
    /\ white_captures > 0
    /\ Cardinality(Occupied(board)) >= 3

(* C2: the group tracker partitions the stones: the keys of groups are the  *)
(* occupied cells, every occupied cell is in the stone set of exactly one   *)
(* group, and the stone sets together are the occupied cells.               *)
C2_GroupsPartitionStones ==
    /\ DOMAIN groups = Occupied(board)
    /\ \A p \in Occupied(board) :
          Cardinality({id \in DOMAIN group_stones : p \in group_stones[id]}) = 1
    /\ UNION {group_stones[id] : id \in DOMAIN group_stones} = Occupied(board)

\* After a capture, with a merged group of two stones and another group.
C2_Witness ==
    /\ Placed
    /\ black_captures + white_captures > 0
    /\ \E id \in DOMAIN group_stones : Cardinality(group_stones[id]) >= 2
    /\ Cardinality(DOMAIN group_stones) >= 2

(* C3: the tracked liberty set of every group is exactly the set of empty   *)
(* cells next to one of its stones.                                         *)
C3_LibertiesExact ==
    \A id \in DOMAIN group_stones :
        Get(group_liberties, id) = LibertiesOf(board, group_stones[id])

(* C4: a placement that fills the last liberty of an opponent group removes *)
(* the group in the same call: after a successful placement no group on the *)
(* grid is without an empty neighbour.                                      *)
C4_NoGroupWithoutLiberty ==
    Placed => \A p \in Occupied(board) : LibertiesOf(board, ChainOf(board, p)) # {}

\* The colour of the stone a step puts on the grid.
StonePlaced == board'[CHOOSE p \in Interior : board[p] = EMPTY /\ board'[p] \in Colors]

\* How many cells a step turns from a colour to empty.
Taken(color) == Cardinality({p \in Interior : board[p] = color /\ board'[p] = EMPTY})

(* C5: a successful place_stone by colour c adds to c's capture counter the *)
(* number of cells that went from the opponent's colour to empty in the     *)
(* call, and leaves the other counter alone.                                *)
C5_CapturesCounted ==
    [][(last'.op = "place_stone" /\ last'.ok) =>
          /\ black_captures' - black_captures =
                IF StonePlaced = BLACK THEN Taken(WHITE) ELSE 0
          /\ white_captures' - white_captures =
                IF StonePlaced = WHITE THEN Taken(BLACK) ELSE 0]_vars

\* Each colour has captured, one of them two stones or more.
C5_Witness ==
    /\ Placed
    /\ black_captures > 0
    /\ white_captures > 0
    /\ (black_captures >= 2 \/ white_captures >= 2)

\* An empty point all of whose in-bounds neighbours are opponent stones, none
\* of them in a chain whose only liberty the point is.
SelfFill(b, y, x, color) ==
    /\ InBounds(y, x)
    /\ b[<<y, x>>] = EMPTY
    /\ \A q \in Adjacent(y, x) :
          /\ b[q] = Opponent(color)
          /\ LibertiesOf(b, ChainOf(b, q)) # {<<y, x>>}

(* C6: place_stone on an empty point whose neighbours are all opponent      *)
(* stones, and which captures nothing, is rejected as a suicide.            *)
C6_SelfFillRejected ==
    \A m \in PlaceInputs :
        SelfFill(board, m[1], m[2], m[3]) =>
            AnalyzeMove(Self, m[1], m[2], m[3]).reason = "suicide move"

(* C7: place_stone rejects, with the ko reason, every placement whose       *)
(* resulting grid is one that already occurred since construction or reset. *)
C7_RepetitionRejectedAsKo ==
    \A m \in PlaceInputs :
        (/\ InBounds(m[1], m[2])
         /\ board[<<m[1], m[2]>>] = EMPTY
         /\ ResultGrid(Self, m[1], m[2], m[3]) \in seen_grids)
            => AnalyzeMove(Self, m[1], m[2], m[3]).reason = "ko rule violation"

(* C8: a rejected place_stone, and every is_valid_move, leaves the grid,    *)
(* the group tracker, the fingerprint, the repetition set and the capture   *)
(* counters as they were.                                                   *)
C8_RejectionChangesNothing ==
    [][((last'.op = "place_stone" /\ ~last'.ok) \/ last'.op = "is_valid_move")
          => UNCHANGED boardVars]_vars

\* A recapture in a ko has just been rejected, with groups on the board.
C8_Witness ==
    /\ Rejected
    /\ last.reason = "ko rule violation"
    /\ DOMAIN group_stones # {}

\* The last call was a pop that returned a record.
PoppedOne == last = Returned("pop", TRUE, "")

\* The record the last pop took back: the one just above the cursor.
TakenBack == moves[current_index + 2]

\* The last call was a forward that returned True.
WentForward == last = Returned("forward", TRUE, "")

\* The record the last forward made again: the one at the cursor.
MadeAgain == moves[current_index + 1]

----------------------------------------------------------------------------
(* MoveStack claims *)

\* The last call was a push that returned True.
Pushed == last = Returned("push", TRUE, "")

\* A record of a pass or of a resignation.
IsPassOrResign(record) == record.is_pass \/ record.is_resign

(* C11: a successful push with the cursor at c discards the records after   *)
(* c: the history is then the old records 0..c and the new record, the      *)
(* cursor is c + 1 = len - 1, and a forward that follows returns False.     *)
C11_PushTruncates ==
    [][/\ (last'.op = "push" /\ last'.ok) =>
            /\ Len(moves') = current_index + 2
            /\ SubSeq(moves', 1, current_index + 1) = SubSeq(moves, 1, current_index + 1)
            /\ current_index' = current_index + 1
            /\ current_index' = Len(moves') - 1
       /\ (Pushed /\ last'.op = "forward") => ~last'.ok]_vars

\* A push has just been stored after an undo: fewer records are kept than
\* were pushed.
C11_Witness ==
    /\ Pushed
    /\ Len(moves) >= 2
    /\ pushed > Len(moves)

(* C12: push of a stone move that is_valid_move accepts returns True (and   *)
(* so leaves the stone on the point and makes the record the current one),  *)
(* also when the point is next to opponent stones.                          *)
C12_ValidPushSucceeds ==
    \A m \in StackMoves :
        (/\ ~IsPassOrResign(m)
         /\ AnalyzeMove(Self, m.y, m.x, m.color).is_valid)
            => PushOutcome(Self, m) = "True"

(* C15: the cursor stays between -1 and len(moves) - 1, and the history is  *)
(* changed by nothing but a successful push: not by pop, back, forward,     *)
(* to_root, to_end, peek or peek_next.                                      *)
C15_CursorInRange ==
    /\ [](-1 <= current_index /\ current_index <= Len(moves) - 1)
    /\ [][moves' # moves => (last'.op = "push" /\ last'.ok)]_vars

\* to_root has walked back over three records, which are all still there.
C15_Witness ==
    /\ last.op = "to_root"
    /\ current_index = -1
    /\ Len(moves) = 3

\* A record applied to a grid: the stone is placed and its captured stones
\* are emptied; a pass or a resignation leaves the grid.
ApplyRecord(b, record) ==
    IF IsPassOrResign(record) THEN b
    ELSE [p \in Cells |->
            IF p = <<record.y, record.x>> THEN record.color
            ELSE IF \E i \in 1 .. Len(record.captured_stones) :
                       record.captured_stones[i] = p
              THEN EMPTY
            ELSE b[p]]

RECURSIVE Replayed(_, _)
\* The first n records applied in order to the empty board.
Replayed(ms, n) ==
    IF n = 0 THEN EmptyGrid ELSE ApplyRecord(Replayed(ms, n - 1), ms[n])

(* C16: for a stack on an empty board driven through its own methods,       *)
(* current_position() is the number of moves in effect: the grid is the     *)
(* one obtained by applying records 0..current_index to an empty board.     *)
C16_GridIsReplay == board = Replayed(moves, CurrentPosition)

\* back has taken one of three stones off the board.
C16_Witness ==
    /\ last = Returned("back", TRUE, "")
    /\ Len(moves) = 3
    /\ CurrentPosition = 2
    /\ Cardinality(Occupied(board)) = 2

(* C17: pop with the cursor at -1 returns None and forward with the cursor  *)
(* at len(moves) - 1 returns False, and both leave cursor, history, grid,   *)
(* fingerprint and repetition set as they were.                             *)
C17_PastTheEndsNothingMoves ==
    [][/\ (last'.op = "pop" /\ current_index = -1) =>
            /\ last' = Returned("pop", FALSE, "None")
            /\ UNCHANGED <<boardVars, stackVars>>
       /\ (last'.op = "forward" /\ current_index = Len(moves) - 1) =>
            /\ last' = Returned("forward", FALSE, "")
            /\ UNCHANGED <<boardVars, stackVars>>]_vars

\* pop has returned None with three records ahead of the cursor.
C17_Witness ==
    /\ last = Returned("pop", FALSE, "None")
    /\ Len(moves) = 3

(* C18: to_root and to_end terminate.  When to_root returns the cursor is   *)
(* -1 and the grid is the one the stack started from, the empty one; when   *)
(* to_end returns the cursor is len(moves) - 1 and the grid is as it was    *)
(* right after the last successful push.                                    *)
C18_WalksEnd ==
    /\ (walk = "to_root") ~> (walk = "idle")
    /\ (walk = "to_end") ~> (walk = "idle")
    /\ [](last = Returned("to_root", FALSE, "returned") =>
             (current_index = -1 /\ board = EmptyGrid))
    /\ [](last = Returned("to_end", FALSE, "returned") =>
             /\ current_index = Len(moves) - 1
             /\ board = IF moves = <<>> THEN EmptyGrid
                        ELSE moves[Len(moves)].after.board)

\* to_root is under way: its loop has taken two of three stones back.
C18_Witness ==
    /\ walk = "to_root"
    /\ last = Returned("to_root", TRUE, "")
    /\ Len(moves) = 3
    /\ current_index = 0
    /\ Cardinality(Occupied(board)) = 1

(* C19: pushing, popping or redoing a pass or a resignation leaves grid,    *)
(* fingerprint, repetition set, capture counters and group tracker as they  *)
(* were.                                                                    *)
C19_PassLeavesBoard ==
    [][/\ (last'.op = "push" /\ last'.ok /\ IsPassOrResign(moves'[current_index' + 1]))
            => UNCHANGED boardVars
       /\ (last'.op \in {"pop", "back"} /\ last'.ok
             /\ IsPassOrResign(moves[current_index + 1]))
            => UNCHANGED <<boardVars, moves>>
       /\ (last'.op = "forward" /\ last'.ok
             /\ IsPassOrResign(moves[current_index + 2]))
            => UNCHANGED <<boardVars, moves>>]_vars

\* A resignation has been pushed on a board with a stone.
C19_Witness ==
    /\ Pushed
    /\ moves[current_index + 1].is_resign
    /\ Occupied(board) # {}
    /\ Cardinality(position_history) >= 2

\* The reasons of place_stone's InvalidMoveError.
PlacementReasons ==
    {"out of bounds", "position already occupied", "suicide move",
     "ko rule violation"}

(* C20: a push of a stone move that the rules reject (out of bounds,        *)
(* occupied, suicide or ko) fails with MoveError, and stores nothing: the   *)
(* history, with the records after the cursor, the cursor and the Board     *)
(* are as they were.                                                        *)
C20_IllegalPushIsMoveError ==
    /\ [](\A m \in StackMoves :
             (/\ ~IsPassOrResign(m)
              /\ ~AnalyzeMove(Self, m.y, m.x, m.color).is_valid)
                 => PushOutcome(Self, m) = "MoveError")
    /\ [][(last'.op = "push" /\ ~last'.ok /\ last'.reason \in PlacementReasons)
             => UNCHANGED <<boardVars, stackVars>>]_vars

----------------------------------------------------------------------------
(* Game claims *)

(* C13: play(y, x) on a point that is legal for the player to move returns  *)
(* True (and then the stone is on the point, (y, x) is the last entry of    *)
(* moves_history, passes is 0 and the other colour is to move).             *)
C13_LegalPlayReturnsTrue ==
    \A p \in GamePoints :
        (/\ ~is_game_over
         /\ AnalyzeMove(Self, p[1], p[2], current_player).is_valid)
            => PlayEffect(Self, p[1], p[2], current_player).outcome = "True"

(* C14: a play(y, x) that raises InvalidMoveError leaves the session as it  *)
(* was: grid, fingerprint, repetition set, capture counters, group tracker, *)
(* move stack, moves_history, passes and current_player.                    *)
C14_InvalidPlayChangesNothing ==
    [][(last'.op = "play" /\ ~last'.ok /\ last'.reason \in PlacementReasons)
          => UNCHANGED <<boardVars, stackVars, gameVars>>]_vars

----------------------------------------------------------------------------
(* More claims on MoveStack and Board *)

(* C21: the repetition set stored in a record is never shared with the live *)
(* set: whatever is added to position_history after a pop, every record     *)
(* keeps the snapshot taken when it was pushed.                             *)
C21_SnapshotNotShared ==
    \A i \in 1 .. Len(moves) :
        moves[i].previous_position_history = moves[i].before.position_history

(* C25: a tracker operation on an id that does not exist fails with         *)
(* KeyError and creates no entry: get_group_stones and get_group_liberties  *)
(* never add an id to the tables, so a read of an id the tables do not      *)
(* hold (a removed one, for instance) cannot return.                        *)
C25_UnknownIdNotFound ==
    [][/\ last'.op = "get_group_stones" =>
            /\ DOMAIN group_stones' = DOMAIN group_stones
            /\ last'.ok => Cardinality(DOMAIN group_stones) > 0
       /\ last'.op = "get_group_liberties" =>
            /\ DOMAIN group_liberties' = DOMAIN group_liberties
            /\ last'.ok => Cardinality(DOMAIN group_liberties) > 0]_vars

(* C30: merge_groups(ids, new_stone) keeps min(ids); afterwards every other *)
(* id of ids is in neither the stone nor the liberty table, the set of the  *)
(* kept id is the union of the merged sets and new_stone, and every stone   *)
(* of it (new_stone too) maps to the kept id.                               *)
C30_MergeKeepsSmallestId ==
    \A group_ids \in SUBSET (DOMAIN group_stones) \ {{}}, p \in TrackerPoints :
        board[p] = EMPTY =>
            LET written == StoneWritten(Self, p[1], p[2], BLACK)
                merged == MergeGroups(written, group_ids, p, written.board)
                kept == Min(group_ids)
            IN /\ MergedId(group_ids) = kept
               /\ (group_ids \ {kept}) \cap DOMAIN merged.group_stones = {}
               /\ (group_ids \ {kept}) \cap DOMAIN merged.group_liberties = {}
               /\ kept \in DOMAIN merged.group_stones
               /\ merged.group_stones[kept]
                    = UNION {Get(group_stones, id) : id \in group_ids} \cup {p}
               /\ \A q \in merged.group_stones[kept] :
                     GetGroupId(merged, q) = kept

\* merge_groups has joined two groups of one stone each with the stone
\* placed between them.
C30_Witness ==
    /\ last = Returned("merge_groups", TRUE, "")
    /\ next_group_id = 2
    /\ DOMAIN group_stones = {0}
    /\ group_stones[0] = TrackerPoints
    /\ \A q \in TrackerPoints : GetGroupId(Self, q) = 0

(* C26: in every reachable state and for either colour, get_legal_moves     *)
(* returns exactly the interior points for which is_valid_move is true (no  *)
(* occupied point, and the quick check never disagrees with the analysis),  *)
(* and the call changes no state.                                           *)
C26_LegalMovesAreValidMoves ==
    /\ [](\A c \in Colors :
             GetLegalMoves(Self, c)
               = {p \in Interior : AnalyzeMove(Self, p[1], p[2], c).is_valid})
    /\ [][last'.op = "get_legal_moves" => UNCHANGED boardVars]_vars

\* get_legal_moves has run on a board where an empty point next to stones is
\* not legal for a colour, and one away from all stones is.
C26_Witness ==
    /\ last = Returned("get_legal_moves", TRUE, "")
    /\ \E c \in Colors, p \in Interior :
          /\ board[p] = EMPTY
          /\ HasAdjacent(board, p)
          /\ p \notin GetLegalMoves(Self, c)
    /\ \E c \in Colors, p \in Interior :
          ~HasAdjacent(board, p) /\ p \in GetLegalMoves(Self, c)

(* C27: place_stone, is_valid_move and get_legal_moves with a colour that   *)
(* is neither BLACK nor WHITE raise ValueError, on an occupied point and    *)
(* off the board too, and leave the Board as it was.                        *)
C27_BadColourIsValueError ==
    /\ [](\A c \in BadColors :
             /\ \A p \in Cells :
                   /\ PlaceStoneOutcome(Self, p[1], p[2], c) = "ValueError"
                   /\ IsValidMoveOutcome(Self, p[1], p[2], c) = "ValueError"
             /\ GetLegalMovesOutcome(c) = "ValueError")
    /\ [][last'.reason = "ValueError" => UNCHANGED boardVars]_vars

\* place_stone has raised ValueError on a board where (1, 1) is occupied.
C27_Witness ==
    /\ last = Returned("place_stone", FALSE, "ValueError")
    /\ board[<<1, 1>>] \in Colors

(* C28: reset gives the state of a new Board: the interior empty, the       *)
(* border off-board, both counters 0, current_hash 0, position_history      *)
(* holding the fingerprint of the empty board only, and an empty tracker    *)
(* with next id 0.                                                          *)
C28_ResetIsNewBoard ==
    last.op = "reset" =>
        /\ Self = NewBoard
        /\ \A p \in Cells :
              board[p] = IF InBounds(p[1], p[2]) THEN EMPTY ELSE OFFBOARD
        /\ black_captures = 0 /\ white_captures = 0
        /\ current_hash = {}
        /\ position_history = {{}}
        /\ groups = <<>> /\ group_stones = <<>> /\ group_liberties = <<>>
        /\ next_group_id = 0

\* reset has returned: one grid seen, one fingerprint in the repetition set.
C28_Witness ==
    /\ last.op = "reset"
    /\ Cardinality(seen_grids) = 1
    /\ Cardinality(position_history) = 1

----------------------------------------------------------------------------
(* More claims on Game *)

(* C22: once the game is over, every play, resign and get_legal_moves       *)
(* raises GameError and changes nothing; the game stays over until an undo  *)
(* or a reset.                                                              *)
C22_OverUntilUndoOrReset ==
    [][/\ (is_game_over /\ last'.op \in {"play", "resign", "get_legal_moves"}) =>
            /\ last' = Returned(last'.op, FALSE, "GameError")
            /\ UNCHANGED <<boardVars, stackVars, gameVars>>
       /\ (is_game_over /\ ~is_game_over') => last'.op \in {"undo", "reset"}]_vars

\* get_legal_moves has raised GameError after two passes in a row.
C22_Witness ==
    /\ is_game_over
    /\ passes = 2
    /\ last = Returned("get_legal_moves", FALSE, "GameError")

(* C23: after a successful undo, current_player is what it was right before *)
(* the undone move was made: for a stone, a pass and a resignation, and for *)
(* resign(color) when `color` was not to move.                              *)
C23_UndoRestoresTurn ==
    [][(last'.op = "undo" /\ last'.ok)
          => current_player' = turn_history[Len(turn_history)]]_vars

\* C29: for every board size from 5 to 25 and every point (y, x) of such a
\* board, reading back the SGF text written for (y, x) gives (y, x).
C29_SgfRoundTrip ==
    conv.coord # <<>> => conv.coord = <<conv.y, conv.x>>

\* The point (1, 2) of the largest board, written as "by" and read back.
C29_Witness ==
    /\ conv.board_size = MaxBoardSize
    /\ conv.y = 1
    /\ conv.x = 2
    /\ conv.sgf = <<"b", "y">>
    /\ conv.coord = <<1, 2>>

\* The fields of a Board that C24 speaks about.
Position(B) ==
    <<B.board, B.black_captures, B.white_captures, B.current_hash,
      B.position_history>>

\* C24: the Game that copy returns starts with the grid, the capture
\* counters, the fingerprint, the contents of the repetition set, the player
\* to move, the pass count and the game-over flag of the original; no call on
\* the copy changes the grid, counters, fingerprint or repetition set of the
\* original, and no call on the original changes those of the copy.
C24_CopyIsIndependent ==
    /\ [][last'.op = "copy"
            => /\ Position(twin'.board) = Position(Self)
               /\ twin'.current_player = current_player
               /\ twin'.passes = passes
               /\ twin'.is_game_over = is_game_over]_vars
    /\ [][last'.op = "copy.play"
            => UNCHANGED <<board, black_captures, white_captures,
                           current_hash, position_history>>]_vars
    /\ [][(last'.op = "play" /\ twin.made)
            => Position(twin'.board) = Position(twin.board)]_vars

\* The copy was made with a stone on the board; since then a stone was added
\* to the original only, and another one to the copy only.
C24_Witness ==
    /\ twin.made
    /\ last.op = "copy.play"
    /\ board[<<1, 1>>] # EMPTY /\ twin.board.board[<<1, 1>>] = EMPTY
    /\ board[<<1, 2>>] = EMPTY /\ twin.board.board[<<1, 2>>] # EMPTY
    /\ board[<<2, 1>>] # EMPTY /\ twin.board.board[<<2, 1>>] # EMPTY
    /\ Cardinality(position_history \cap twin.board.position_history) > 1

----------------------------------------------------------------------------
(* Claims on suicide, capture, groups and reasons *)

\* The grid with a stone of `color` put on the empty point (y, x), nothing
\* removed.
WithStone(b, y, x, color) == [b EXCEPT ![<<y, x>>] = color]

\* The opponent chains next to (y, x) whose only liberty is (y, x).
ChainsInAtari(b, y, x, color) ==
    {ChainOf(b, q) : q \in {r \in Adjacent(y, x) :
                              /\ b[r] = Opponent(color)
                              /\ LibertiesOf(b, ChainOf(b, r)) = {<<y, x>>}}}

\* By the grid: the stone on (y, x), merged with the chains of its colour
\* next to it, would be without a liberty, and no opponent chain is taken.
SuicideOnGrid(b, y, x, color) ==
    /\ ChainsInAtari(b, y, x, color) = {}
    /\ LibertiesOf(WithStone(b, y, x, color),
                   ChainOf(WithStone(b, y, x, color), <<y, x>>)) = {}

(* C31: place_stone rejects a placement as suicide exactly when the group   *)
(* of the placed stone would have no liberty and no opponent group is       *)
(* captured; a stone without an empty neighbour that joins a group of its   *)
(* colour which keeps a liberty is accepted.                                *)
C31_SuicideExactly ==
    \A m \in PlaceInputs :
        (InBounds(m[1], m[2]) /\ board[<<m[1], m[2]>>] = EMPTY)
            => ((AnalyzeMove(Self, m[1], m[2], m[3]).reason = "suicide move")
                   <=> SuicideOnGrid(board, m[1], m[2], m[3]))

\* The point a step puts a stone on.
PointPlaced == CHOOSE p \in Interior : board[p] = EMPTY /\ board'[p] \in Colors

(* C32: a placement at p removes an opponent group only when p is the       *)
(* group's sole liberty: every stone a successful place_stone takes off the *)
(* grid was in a chain with no empty neighbour but p.                       *)
C32_OnlySoleLibertyCaptured ==
    [][(last'.op = "place_stone" /\ last'.ok) =>
          \A q \in Interior :
              (board[q] \in Colors /\ board'[q] = EMPTY)
                  => LibertiesOf(board, ChainOf(board, q)) = {PointPlaced}]_vars

(* C33: every tracked group is a maximal 4-connected set of stones of one   *)
(* colour: the stone set of the group of an occupied cell is the chain of   *)
(* that cell on the grid.                                                   *)
C33_GroupsAreChains ==
    \A p \in DOMAIN groups :
        Get(group_stones, groups[p]) = ChainOf(board, p)

\* A placement has just merged groups into one of three stones or more,
\* beside a group of the other colour, after a capture.
C33_Witness ==
    /\ Placed
    /\ black_captures + white_captures > 0
    /\ \E id \in DOMAIN group_stones : Cardinality(group_stones[id]) >= 3
    /\ {board[p] : p \in DOMAIN groups} = Colors

\* _analyze_move's test for suicide: no empty neighbour, and no group to
\* capture.
SuicideTest(B, y, x, color) ==
    EmptyAdjacent(B.board, y, x) = {} /\ CapturedGroups(B, y, x, color) = {}

\* The reasons of a rejection.
Reasons ==
    {"out of bounds", "position already occupied", "suicide move",
     "ko rule violation"}

(* C34: the analysis gives one of four reasons, out of bounds before        *)
(* occupied before suicide before ko: a placement that is a suicide and a   *)
(* repetition is reported as suicide; an accepted move has the empty        *)
(* reason.                                                                  *)
C34_ReasonPrecedence ==
    \A m \in PlaceInputs :
        LET a == AnalyzeMove(Self, m[1], m[2], m[3])
            inside == InBounds(m[1], m[2])
            empty == inside /\ board[<<m[1], m[2]>>] = EMPTY
            suicide == empty /\ SuicideTest(Self, m[1], m[2], m[3])
            repeats == empty /\ NewHash(Self, m[1], m[2], m[3]) \in position_history
        IN /\ a.is_valid <=> a.reason = ""
           /\ ~a.is_valid => a.reason \in Reasons
           /\ ~inside => a.reason = "out of bounds"
           /\ (inside /\ ~empty) => a.reason = "position already occupied"
           /\ suicide => a.reason = "suicide move"
           /\ (repeats /\ ~suicide) => a.reason = "ko rule violation"
           /\ (empty /\ ~suicide /\ ~repeats) => a.is_valid

\* The placements that the analysis calls a suicide in this state.
Suicides ==
    {m \in PlaceInputs : AnalyzeMove(Self, m[1], m[2], m[3]).reason = "suicide move"}

\* A placement has just been rejected as suicide, in a state in which a
\* placement that the analysis calls a suicide would also repeat a position.
C34_Witness ==
    /\ Rejected
    /\ last.reason = "suicide move"
    /\ \E m \in Suicides : NewHash(Self, m[1], m[2], m[3]) \in position_history

----------------------------------------------------------------------------
(* Claims on records, undo and the tracker *)

\* The record a push has just stored.
NewRecord == moves'[Len(moves')]

\* The elements of a sequence.
Range(seq) == {seq[i] : i \in 1 .. Len(seq)}

MoveOf(record) == StoneMove(record.y, record.x, record.color)

C37_TrackerFollowsUndo ==
    /\ DOMAIN groups = Occupied(board)
    /\ \A p \in Occupied(board) :
          \E id \in DOMAIN group_stones :
              /\ p \in group_stones[id]
              /\ \A other \in DOMAIN group_stones :
                    p \in group_stones[other] => other = id

(* C38: a copy of a Game behaves as its original: when the same place_stone *)
(* calls are made on both Boards, each call is accepted or rejected alike,  *)
(* with the same reason, and the Boards have the same grid and the same     *)
(* capture counters; stones on the board at the time of the copy can still  *)
(* be captured in the copy.                                                 *)
C38_CopyBehavesAlike ==
    twin.made =>
        /\ twin.board.board = board
        /\ twin.board.black_captures = black_captures
        /\ twin.board.white_captures = white_captures
        /\ \A m \in AlikeInputs :
              AnalyzeMove(twin.board, m[1], m[2], m[3]).reason
                 = AnalyzeMove(Self, m[1], m[2], m[3]).reason

----------------------------------------------------------------------------
(* Claims on the pass count *)

RECURSIVE TrailingPasses(_)
\* How many entries at the end of a history are passes.
TrailingPasses(history) ==
    IF history = <<>> THEN 0
    ELSE IF history[Len(history)] = "pass"
      THEN 1 + TrailingPasses(SubSeq(history, 1, Len(history) - 1))
    ELSE 0

(* C40: in every state reached through play, undo, resign and reset, passes *)
(* is the number of consecutive pass entries at the end of moves_history.   *)
C40_PassesCountTrailingPasses == passes = TrailingPasses(moves_history)

====
